---- MODULE Spec2Model ----
(***************************************************************************)
(* The operator endpoint (ServerThreads.py, Server_GUI.py) and the peer    *)
(* link (ClientThreads.py) of the screen-sharing system, as one state      *)
(* machine.  Every thread of the program is a process with a program       *)
(* counter; the shared objects (registry, queues, events, sockets, the Tk  *)
(* callback queue) are the variables.                                      *)
(***************************************************************************)
EXTENDS Integers, Sequences, FiniteSets, TLC

\* Peer identities (transport addresses) and Python's None / '' address.
Addr == {"A", "B", "C"}
None == "None"

\* Bounds of the model.
MaxOps == 2
MaxFrames == 2
MaxFaults == 1
MaxTicks == 1
MaxFails == 1
MaxLen == 3

\* Abstract image sizes: the peer's native (1920, 1080), the operator's
\* fullscreen_size, and the thumbnail size organize_screens computes.
NativeSize == 0
FullSize == 1

VARIABLES
    stop_event,        \* Server.stop_event
    listener,          \* Server.server: "new", "listening", "closed"
    backlog,           \* connections waiting in the listen backlog
    srv,               \* Server.run: [pc, addr, sock, reason]; sock is what key_exchange
                       \* returned (None, or the address whose socket it returned)
    ext_stop,          \* an external caller of Server.stop: "idle", "begun", "done"
    close_calls,       \* reasons close_callback was invoked with, in order
    clients_dict,      \* Server.client_sockets_and_threads, in dict order
    clients_lock,      \* holder of Server.clients_lock, or "free"
    handler,           \* ClientHandler per address: [pc, stop]
    ssock,             \* operator-side socket per address: "none", "open", "closed"
    rsa_keys,          \* addresses with a stored peer public key
    pause_event,       \* Server.pause_event
    command_queue,     \* Command Channel
    frame_queue,       \* Frame Channel
    cc,                \* CommandConsumer.run: [pc, stop, client_address, cmd, addr, targets]
                       \* and, as history, snap (the registry when the lock was taken)
                       \* and failed (the peers whose send raised for this command)
    fc,                \* FrameConsumer.run: [pc, stop]
    kicked_addresses,  \* ServerGui.kicked_addresses
    buttons,           \* ServerGui.buttons (addresses with a thumbnail)
    fullscreen_address,\* ServerGui.fullscreen_address
    fullscreen_widget, \* ServerGui.fullscreen_widget is not None
    control_switch,    \* ServerGui.control_switch
    block_states,      \* addresses whose ServerGui.block_states entry is True
    button_size,       \* ServerGui.button_size
    shutdown_event,    \* ServerGui.shutdown_event
    afterQ,            \* callbacks scheduled with root.after(0, ...), in order
    gui,               \* the Tk main thread: [pc, target, temp_list]
    ops,               \* operator UI events so far
    pc,                \* Client.run position per peer
    psock,             \* peer-side socket: "none", "open", "closed"
    ppause,            \* Client.pause_event per peer
    pblock,            \* Client.block_event per peer
    input,             \* per peer: UserBlocker's listeners, and where the command
                       \* loop is within the command it is handling
    pimg,              \* ScreenShare.img_size per peer
    preason,           \* reasons disconnect_callback was invoked with, per peer
    sent,              \* frames published so far per peer
    share,             \* ScreenShare.run per peer: [pc, stop, failed]
    cstop,             \* Client.stop per peer: [lock, disconnected, call, bodies, first]
    s2c,               \* records in flight operator -> peer
    c2s,               \* records in flight peer -> operator
    may_connect,       \* peers that have not connected yet
    lk,                \* the seven locks: the owner of each, and what is left of the
                       \* operation each worker is in, as its acquires and releases
    tx,                \* the fields sent to each peer one send() at a time, and how
                       \* many fields of its current record each writer has sent
    rx,                \* one call of recv_all: its arguments, the stream and its locals
    keys,              \* the symmetric key: Server.aes_key, the encrypted key record in
                       \* flight to each peer, each Client.server_aes_key, each
                       \* ClientHandler.aes_key, and the keys the dispatcher encrypted
                       \* each peer's command records with
    faults,            \* peer crashes so far
    now,               \* time.time(), in tenths of a second
    \* history (not read by any action)
    wlog,              \* per connection, every record written by either side, in order
    hs_done,           \* addresses whose operator-side handshake has returned a socket
    hs_failed,         \* addresses whose operator-side handshake was aborted
    terminal,          \* addresses for which a terminal event has been processed
    nextId,            \* number of Command Channel puts so far
    rendered,          \* per peer, frame numbers handed to update_screen, in order
    lastpop,           \* the last frame FrameConsumer.run took: [a, n, age, widget, full, fwd]
    drawn,             \* per peer, frame numbers that created or updated a widget
    ui_kicked,         \* addresses the operator pressed the kick button for
    accept_raised      \* accept() has raised while the stop signal was not set

srvVars == <<stop_event, listener, backlog, srv, ext_stop, close_calls>>
regVars == <<clients_dict, clients_lock, handler, ssock, rsa_keys>>
chanVars == <<pause_event, command_queue, frame_queue, cc, fc>>
guiVars == <<kicked_addresses, buttons, fullscreen_address, fullscreen_widget,
             control_switch, block_states, button_size, shutdown_event, afterQ, gui, ops>>
peerVars == <<pc, psock, ppause, pblock, input, pimg, preason, sent, share, cstop>>
wireVars == <<s2c, c2s, may_connect, tx, lk, rx, keys, faults, now>>
histVars == <<wlog, hs_done, hs_failed, terminal, nextId, rendered,
              lastpop, drawn, ui_kicked, accept_raised>>
vars == <<srvVars, regVars, chanVars, guiVars, peerVars, wireVars, histVars>>

----------------------------------------------------------------------------
\* Sequences helpers.

InSeq(x, s) == \E i \in 1..Len(s) : s[i] = x

Without(s, x) == SelectSeq(s, LAMBDA y : y # x)

\* A Command Channel entry (client_address, cmd): op is the text of cmd
\* before the first ':', sz the size a resize carries (0 otherwise); id is the
\* ordinal of the put.
Entry(target, op, sz, id) == [target |-> target, op |-> op, sz |-> sz, id |-> id]

\* Fault injection: a channel that hands out the newest entry first.
PutFront(q, target, op, sz, id) == <<Entry(target, op, sz, id)>> \o q

\* queue.Queue.put on the Command Channel.
Put(q, target, op, sz, id) == Append(q, Entry(target, op, sz, id))

----------------------------------------------------------------------------
\* Sockets.  A send on a socket this side has closed raises; a send to a
\* peer that has closed its end either raises or is accepted and lost.
SendOutcomes(p) ==
    IF ssock[p] # "open" THEN {"fail"}
    ELSE IF psock[p] # "open" THEN {"fail", "lost"}
    ELSE {"ok"}

\* The wire after the operator's send of record r to p with outcome res.
Sent(w, p, r, res) == IF res = "ok" THEN [w EXCEPT ![p] = Append(@, r)] ELSE w

\* The write log after a send: a record is written unless the send raised.
Logged(l, p, r, res) == IF res = "fail" THEN l ELSE [l EXCEPT ![p] = Append(@, r)]

\* Locks.  The operator has the registry lock (Server.clients_lock), the
\* peer-key lock (Server.rsa_keys_lock), the kicked-set lock
\* (ServerGui.kicked_lock) and the pressed-keys lock; one peer has its stop
\* lock (Client._lock), its block-flag lock (Client.block_event_lock) and
\* its capture-resolution lock (ScreenShare._lock).
Locks == {"clients_lock", "rsa_keys_lock", "kicked_lock", "pressed_keys_lock",
          "stop_lock", "block_event_lock", "size_lock"}

\* The threads that take locks: Server.run, a caller of Server.stop,
\* CommandConsumer.run and the Tk main thread on the operator; Client.run,
\* the application calling Client.stop, and ScreenShare.run on the peer.
Workers == {"accept", "stopper", "dispatcher", "tk", "command_loop", "app", "publisher"}

\* A `with lock:` block in which no other lock is requested.
With(l) == <<[do |-> "acq", l |-> l], [do |-> "rel", l |-> l]>>

\* Fault injection: a key_exchange that calls allow_address inside
\* `with self.rsa_keys_lock`.
KeyExchangeNested ==
    <<[do |-> "acq", l |-> "rsa_keys_lock"]>> \o With("kicked_lock")
        \o <<[do |-> "rel", l |-> "rsa_keys_lock"]>>

\* Server.key_exchange: the peer's key is stored under the peer-key lock,
\* then allow_address takes the kicked-set lock.
KeyExchangeLocks == With("rsa_keys_lock") \o With("kicked_lock")

\* The operations of each worker, as the locks they take in order.
\*   accept:       one iteration of Server.run (key_exchange, then the insert
\*                 under the registry lock); Server.stop from its finally;
\*   stopper:      Server.stop;
\*   dispatcher:   one entry of CommandConsumer.run, any branch;
\*   tk:           ServerGui.kick, on_key_press, on_key_release;
\*   command_loop: block / unblock, handle_command, update_size (resize),
\*                 Client.stop from the finally block;
\*   app:          Client.stop;
\*   publisher:    one cycle of ScreenShare.run reading the resolution.
LockOps(w) ==
    IF w = "accept" THEN {KeyExchangeLocks \o With("clients_lock"), With("clients_lock")}
    ELSE IF w \in {"stopper", "dispatcher"} THEN {With("clients_lock")}
    ELSE IF w = "tk" THEN {With("kicked_lock"), With("pressed_keys_lock")}
    ELSE IF w = "command_loop"
         THEN {With("block_event_lock"), With("size_lock"), With("stop_lock")}
    ELSE IF w = "app" THEN {With("stop_lock")}
    ELSE {With("size_lock")}

\* A worker that is in no operation begins one.
LockBegin(w) ==
    /\ lk.prog[w] = <<>>
    /\ \E o \in LockOps(w) : lk' = [lk EXCEPT !.prog[w] = o]
    /\ UNCHANGED <<srvVars, regVars, chanVars, guiVars, peerVars, s2c, c2s, may_connect,
                   tx, rx, keys, faults, now, histVars>>

\* threading.Lock.acquire: the worker goes on once the lock is free.
LockAcquire(w) ==
    /\ lk.prog[w] # <<>>
    /\ Head(lk.prog[w]).do = "acq"
    /\ lk.owner[Head(lk.prog[w]).l] = "free"
    /\ lk' = [lk EXCEPT !.owner[Head(lk.prog[w]).l] = w, !.prog[w] = Tail(@)]
    /\ UNCHANGED <<srvVars, regVars, chanVars, guiVars, peerVars, s2c, c2s, may_connect,
                   tx, rx, keys, faults, now, histVars>>

\* The end of the `with` block.
LockRelease(w) ==
    /\ lk.prog[w] # <<>>
    /\ Head(lk.prog[w]).do = "rel"
    /\ lk' = [lk EXCEPT !.owner[Head(lk.prog[w]).l] = "free", !.prog[w] = Tail(@)]
    /\ UNCHANGED <<srvVars, regVars, chanVars, guiVars, peerVars, s2c, c2s, may_connect,
                   tx, rx, keys, faults, now, histVars>>

\* The three send() calls that make one command record.
Fields == <<"len", "iv", "ct">>

\* Field k of the record numbered id, as written by worker w.
Field(w, id, k) == [by |-> w, f |-> Fields[k], id |-> id]

\* The fields of a record from the one after the first done.
FieldsFrom(w, id, done) == [i \in 1..(3 - done) |-> Field(w, id, done + i)]

\* The fields on the way to p after worker w has ended its record with
\* outcome res: every remaining send() went through, or the next one raised.
Ended(t, p, w, id, res) ==
    [t EXCEPT !.wire[p] = IF res = "fail" THEN @ ELSE @ \o FieldsFrom(w, id, t[w]),
              ![w] = 0]

\* The fields on the way to p after worker w's next send() went through.
OneField(t, p, w, id) ==
    [t EXCEPT !.wire[p] = Append(@, Field(w, id, t[w] + 1)), ![w] = @ + 1]

\* One command record: 4-byte length, IV, ciphertext of the command.
CmdRecord(op, sz, id) == [kind |-> "cmd", op |-> op, sz |-> sz, id |-> id, len |-> 1]

\* Keys.  generate_aes_key is the value Server.__init__ draws once; an RSA
\* ciphertext is the plaintext together with the owner of the public key it
\* was encrypted under, and only that owner's private key gives it back.
NoKey == "None"

generate_aes_key == "aes"

rsa_encrypt(owner, text) == [under |-> owner, text |-> text]

NoCipher == rsa_encrypt(None, NoKey)

rsa_decrypt(owner, c) == IF c.under = owner THEN c.text ELSE "ValueError"

\* Fault injection: an ingestor that draws a key of its own.
OwnKey(p) == <<"aes", p>>

\* `ClientHandler(client_socket, client_address, self.frame_queue,
\* self.aes_key, self.app)`: the key the ingestor of p is given.
HandlerKey(p) == keys.aes_key

\* One handshake record: 4-byte length and key bytes.
KeyRecord(kind) == [kind |-> kind, op |-> "", sz |-> 0, id |-> 0, len |-> 1]

\* One frame record of peer p: 8-byte length, IV, ciphertext of frame n.
FrameRecord(n, sz) == [kind |-> "frame", op |-> "", sz |-> sz, id |-> n, len |-> 1]

\* A frame record whose 8-byte length field is zero.
EmptyFrameRecord == [FrameRecord(0, 0) EXCEPT !.len = 0]

\* A frame record whose payload does not decrypt or does not decompress.
CorruptFrameRecord == [FrameRecord(0, 0) EXCEPT !.kind = "corrupt"]

----------------------------------------------------------------------------
\* ServerGui.organize_screens: the thumbnail size for n thumbnails; with no
\* thumbnail the size is left as it is.
organize_screens(n, old) ==
    IF n = 0 THEN old
    ELSE IF n = 1 THEN 2
    ELSE IF n = 2 THEN 3
    ELSE 4

----------------------------------------------------------------------------
\* Server.stop(stop_reason), in two steps: the stop signal, then (once the
\* registry lock is free) the sweep over the registry and everything after
\* it: the two shared workers are told to stop, the listening socket is
\* closed and close_callback is called.

StopSignal == stop_event' = TRUE

StopSweep(reason) ==
    /\ clients_lock = "free"
    /\ handler' = [p \in Addr |-> IF InSeq(p, clients_dict)
                                   THEN [handler[p] EXCEPT !.stop = TRUE]
                                   ELSE handler[p]]
    /\ ssock' = [p \in Addr |-> IF InSeq(p, clients_dict) THEN "closed" ELSE ssock[p]]
    /\ cc' = [cc EXCEPT !.stop = TRUE]
    /\ fc' = [fc EXCEPT !.stop = TRUE]
    /\ listener' = "closed"
    /\ close_calls' = Append(close_calls, reason)
    /\ terminal' = terminal \cup {p \in Addr : InSeq(p, clients_dict)}

\* Server.stop called from outside the accept loop (the application closing).
ExtStopBegin ==
    /\ ext_stop = "idle"
    /\ srv.pc # "init"
    /\ StopSignal
    /\ ext_stop' = "begun"
    /\ UNCHANGED <<listener, backlog, srv, close_calls, regVars, chanVars, guiVars,
                   peerVars, wireVars, histVars>>

ExtStopSweep ==
    /\ ext_stop = "begun"
    /\ StopSweep("session closed")
    /\ ext_stop' = "done"
    /\ UNCHANGED <<stop_event, backlog, srv, clients_dict, clients_lock, rsa_keys,
                   pause_event, command_queue, frame_queue, guiVars, peerVars, wireVars,
                   wlog, hs_done, hs_failed, nextId, rendered,
                   lastpop, drawn, ui_kicked, accept_raised>>

----------------------------------------------------------------------------
\* Server.run: bind and listen, start the two shared workers, then the
\* accept loop.

SrvStart ==
    /\ srv.pc = "init"
    /\ \E ok \in BOOLEAN :
         IF ok
         THEN /\ listener' = "listening"
              /\ cc' = [cc EXCEPT !.pc = "get"]
              /\ fc' = [fc EXCEPT !.pc = "get"]
              /\ srv' = [srv EXCEPT !.pc = "loop"]
         ELSE /\ srv' = [srv EXCEPT !.pc = "finally", !.reason = "server crashed"]
              /\ UNCHANGED <<listener, cc, fc>>
    /\ UNCHANGED <<stop_event, backlog, ext_stop, close_calls, regVars, pause_event,
                   command_queue, frame_queue, guiVars, peerVars, wireVars, histVars>>

\* `while not self.stop_event.is_set()` and the same test at the top of
\* key_exchange: leave the loop, or go on to block in accept().
SrvLoop ==
    /\ srv.pc = "loop"
    /\ srv' = [srv EXCEPT !.pc = IF stop_event THEN "finally" ELSE "accept",
                           !.addr = None, !.sock = None]
    /\ UNCHANGED <<stop_event, listener, backlog, ext_stop, close_calls, regVars, chanVars,
                   guiVars, peerVars, wireVars, histVars>>

\* self.server.accept() returns the next connection; if the stop signal is
\* already set the connection is closed and dropped.
SrvAccept ==
    /\ srv.pc = "accept"
    /\ listener = "listening"
    /\ backlog # <<>>
    /\ LET p == Head(backlog) IN
         /\ backlog' = Tail(backlog)
         /\ IF stop_event
            THEN /\ ssock' = [ssock EXCEPT ![p] = "closed"]
                 /\ srv' = [srv EXCEPT !.pc = "returned", !.addr = p]
                 /\ hs_failed' = hs_failed \cup {p}
            ELSE /\ ssock' = [ssock EXCEPT ![p] = "open"]
                 /\ srv' = [srv EXCEPT !.pc = "recvkey", !.addr = p]
                 /\ UNCHANGED hs_failed
    /\ UNCHANGED <<stop_event, listener, ext_stop, close_calls, clients_dict, clients_lock,
                   handler, rsa_keys, chanVars, guiVars, peerVars, wireVars,
                   wlog, hs_done, terminal, nextId, rendered,
                   lastpop, drawn, ui_kicked, accept_raised>>

\* accept() on a listening socket that Server.stop has closed raises; the
\* handler in key_exchange returns (None, None).
SrvAcceptError ==
    /\ srv.pc = "accept"
    /\ listener = "closed"
    /\ srv' = [srv EXCEPT !.pc = "returned"]
    /\ UNCHANGED <<stop_event, listener, backlog, ext_stop, close_calls, regVars, chanVars,
                   guiVars, peerVars, wireVars, histVars>>

\* accept() raises on a listening socket that is still open (the connection
\* was aborted before it was accepted, or the process is out of
\* descriptors): the handler in key_exchange returns (None, None).
SrvAcceptRaises ==
    /\ srv.pc = "accept"
    /\ listener = "listening"
    /\ ~accept_raised
    /\ accept_raised' = TRUE
    /\ srv' = [srv EXCEPT !.pc = "returned"]
    /\ UNCHANGED <<stop_event, listener, backlog, ext_stop, close_calls, regVars, chanVars,
                   guiVars, peerVars, wireVars, wlog, hs_done, hs_failed, terminal, nextId,
                   rendered, lastpop, drawn, ui_kicked>>

\* The inbound step of key_exchange under the 5 s timeout: the peer's key
\* record is read and parsed; or nothing arrives in time (socket closed,
\* (None, None)); or the stream ends or the bytes do not parse (the outer
\* handler returns (None, None)).
HsRecvKey ==
    /\ srv.pc = "recvkey"
    /\ LET p == srv.addr IN
         \/ /\ c2s[p] # <<>>
            /\ Head(c2s[p]).kind = "pubkey"
            /\ c2s' = [c2s EXCEPT ![p] = Tail(@)]
            /\ srv' = [srv EXCEPT !.pc = "sendpub"]
            /\ UNCHANGED <<ssock, hs_failed>>
         \/ /\ c2s[p] # <<>>
            /\ Head(c2s[p]).kind # "pubkey"
            /\ c2s' = [c2s EXCEPT ![p] = Tail(@)]
            /\ srv' = [srv EXCEPT !.pc = "returned"]
            /\ hs_failed' = hs_failed \cup {p}
            /\ UNCHANGED ssock
         \/ /\ c2s[p] = <<>>
            /\ psock[p] = "open"
            /\ ssock' = [ssock EXCEPT ![p] = "closed"]
            /\ srv' = [srv EXCEPT !.pc = "returned"]
            /\ hs_failed' = hs_failed \cup {p}
            /\ UNCHANGED c2s
         \/ /\ c2s[p] = <<>>
            /\ psock[p] # "open"
            /\ srv' = [srv EXCEPT !.pc = "returned"]
            /\ hs_failed' = hs_failed \cup {p}
            /\ UNCHANGED <<ssock, c2s>>
    /\ UNCHANGED <<stop_event, listener, backlog, ext_stop, close_calls, clients_dict,
                   clients_lock, handler, rsa_keys, chanVars, guiVars, peerVars,
                   s2c, may_connect, tx, lk, rx, keys, faults, now, wlog, hs_done, terminal, nextId, rendered,
                   lastpop, drawn, ui_kicked, accept_raised>>

\* The operator's public key record is sent.
HsSendPub ==
    /\ srv.pc = "sendpub"
    /\ LET p == srv.addr IN
       \E res \in SendOutcomes(p) :
         /\ s2c' = Sent(s2c, p, KeyRecord("pubkey"), res)
         /\ wlog' = Logged(wlog, p, KeyRecord("pubkey"), res)
         /\ srv' = [srv EXCEPT !.pc = IF res = "fail" THEN "returned" ELSE "sendaes"]
         /\ hs_failed' = IF res = "fail" THEN hs_failed \cup {p} ELSE hs_failed
    /\ UNCHANGED <<stop_event, listener, backlog, ext_stop, close_calls, regVars, chanVars,
                   guiVars, peerVars, c2s, may_connect, tx, lk, rx, keys, faults, now, hs_done, terminal, nextId,
                   rendered,
                   lastpop, drawn, ui_kicked, accept_raised>>

\* ServerGui.allow_address: the address leaves the kicked set.
allow_address(k, p) == k \ {p}

\* The symmetric key, encrypted under the peer's key, is sent; then the
\* peer's key is stored, the address is re-admitted and the socket returned.
HsSendAes ==
    /\ srv.pc = "sendaes"
    /\ LET p == srv.addr IN
       \E res \in SendOutcomes(p) :
         /\ s2c' = Sent(s2c, p, KeyRecord("aeskey"), res)
         /\ wlog' = Logged(wlog, p, KeyRecord("aeskey"), res)
         /\ keys' = IF res = "ok"
                    THEN [keys EXCEPT !.wire[p] = rsa_encrypt(p, keys.aes_key)]
                    ELSE keys
         /\ IF res = "fail"
            THEN /\ srv' = [srv EXCEPT !.pc = "returned"]
                 /\ hs_failed' = hs_failed \cup {p}
                 /\ UNCHANGED <<rsa_keys, kicked_addresses, hs_done>>
            ELSE /\ srv' = [srv EXCEPT !.pc = "returned", !.sock = p]
                 /\ rsa_keys' = rsa_keys \cup {p}
                 /\ kicked_addresses' = allow_address(kicked_addresses, p)
                 /\ hs_done' = hs_done \cup {p}
                 /\ UNCHANGED hs_failed
    /\ UNCHANGED <<stop_event, listener, backlog, ext_stop, close_calls, clients_dict,
                   clients_lock, handler, ssock, chanVars, buttons, fullscreen_address,
                   fullscreen_widget, control_switch, block_states, button_size,
                   shutdown_event, afterQ, gui, ops, peerVars, c2s, may_connect, tx, lk, rx, faults, now,
                   terminal, nextId, rendered,
                   lastpop, drawn, ui_kicked, accept_raised>>

\* Fault injection: the accept loop goes on with any accepted connection,
\* whatever key_exchange returned.
key_exchange_any == srv.addr # None

\* `if client_socket:` in Server.run: key_exchange returned a socket.
key_exchange_ok == srv.sock # None

\* Fault injection: an accept loop that a failed handshake ends.
SrvRejectedFatal ==
    /\ srv.pc = "returned"
    /\ ~key_exchange_ok
    /\ srv' = [srv EXCEPT !.pc = "finally"]
    /\ UNCHANGED <<stop_event, listener, backlog, ext_stop, close_calls, regVars, chanVars,
                   guiVars, peerVars, wireVars, histVars>>

\* key_exchange returned (None, None): the loop goes round.
SrvRejected ==
    /\ srv.pc = "returned"
    /\ ~key_exchange_ok
    /\ srv' = [srv EXCEPT !.pc = "loop"]
    /\ UNCHANGED <<stop_event, listener, backlog, ext_stop, close_calls, regVars, chanVars,
                   guiVars, peerVars, wireVars, histVars>>

\* The initial resize for the new peer is put on the Command Channel.
SrvEnqueueResize ==
    /\ srv.pc = "returned"
    /\ key_exchange_ok
    /\ command_queue' = Put(command_queue, srv.addr, "resize", button_size, nextId + 1)
    /\ nextId' = nextId + 1
    /\ srv' = [srv EXCEPT !.pc = "pause"]
    /\ UNCHANGED <<stop_event, listener, backlog, ext_stop, close_calls, regVars,
                   pause_event, frame_queue, cc, fc, guiVars, peerVars, wireVars,
                   wlog, hs_done, hs_failed, terminal, rendered,
                   lastpop, drawn, ui_kicked, accept_raised>>

\* `if self.pause_event.is_set()` in Server.run: the flag is read once,
\* before the first send(); a write that has begun goes on.
PauseWanted == pause_event \/ tx.srv > 0

\* If the pause flag is set, `pause` is written to the new peer directly;
\* a failure of that write is only logged.
SrvPause ==
    /\ srv.pc = "pause"
    /\ LET p == srv.addr IN
         IF PauseWanted
         THEN \E res \in SendOutcomes(p) :
                /\ s2c' = Sent(s2c, p, CmdRecord("pause", 0, 0), res)
                /\ wlog' = Logged(wlog, p, CmdRecord("pause", 0, 0), res)
                /\ tx' = Ended(tx, p, "srv", 0, res)
         ELSE UNCHANGED <<s2c, wlog, tx>>
    /\ srv' = [srv EXCEPT !.pc = "insert"]
    /\ UNCHANGED <<stop_event, listener, backlog, ext_stop, close_calls, regVars, chanVars,
                   guiVars, peerVars, c2s, may_connect, lk, rx, keys, faults, now, hs_done, hs_failed,
                   terminal, nextId, rendered,
                   lastpop, drawn, ui_kicked, accept_raised>>

\* One of the first two send() calls of the direct `pause` goes through.
SrvPauseField ==
    /\ srv.pc = "pause"
    /\ PauseWanted
    /\ tx.srv < 2
    /\ "fail" \notin SendOutcomes(srv.addr)
    /\ tx' = OneField(tx, srv.addr, "srv", 0)
    /\ UNCHANGED <<srvVars, regVars, chanVars, guiVars, peerVars, s2c, c2s, may_connect, lk, rx,
                   keys, faults, now, histVars>>

\* ClientHandler.min_frame_interval (1.0 / FPS = 0.1 s), in tenths of a second.
min_frame_interval == 1

\* ClientHandler.__init__ and start().  late is history: the frames put
\* after the stop signal was set.  recent stands for last_frame_time:
\* it says whether last_frame_time is less than min_frame_interval ago
\* (initially it is 0, long before any reading of the clock).
NewHandler == [pc |-> "check", stop |-> FALSE, recent |-> FALSE, late |-> 0]

\* The registry after `clients_dict[p] = (socket, handler)`.
Insert(d, p) == IF InSeq(p, d) THEN d ELSE Append(d, p)

\* Fault injection: an insert that does not take the registry lock.
SrvInsertUnlocked ==
    /\ srv.pc = "insert"
    /\ clients_dict' = Insert(clients_dict, srv.addr)
    /\ handler' = [handler EXCEPT ![srv.addr] = NewHandler]
    /\ keys' = [keys EXCEPT !.entry[srv.addr] = HandlerKey(srv.addr)]
    /\ srv' = [srv EXCEPT !.pc = "loop"]
    /\ UNCHANGED <<stop_event, listener, backlog, ext_stop, close_calls, clients_lock,
                   ssock, rsa_keys, chanVars, guiVars, peerVars, s2c, c2s, may_connect, tx, lk, rx,
                   faults, now, histVars>>

\* The ingestor is created, the entry is inserted under the registry lock
\* and the ingestor is started.
SrvInsert ==
    /\ srv.pc = "insert"
    /\ clients_lock = "free"
    /\ clients_dict' = Insert(clients_dict, srv.addr)
    /\ handler' = [handler EXCEPT ![srv.addr] = NewHandler]
    /\ keys' = [keys EXCEPT !.entry[srv.addr] = HandlerKey(srv.addr)]
    /\ srv' = [srv EXCEPT !.pc = "loop"]
    /\ UNCHANGED <<stop_event, listener, backlog, ext_stop, close_calls, clients_lock,
                   ssock, rsa_keys, chanVars, guiVars, peerVars, s2c, c2s, may_connect, tx, lk, rx,
                   faults, now, histVars>>

\* The finally block of Server.run: self.stop(stop_reason).
SrvFinallySignal ==
    /\ srv.pc = "finally"
    /\ StopSignal
    /\ srv' = [srv EXCEPT !.pc = "sweep"]
    /\ UNCHANGED <<listener, backlog, ext_stop, close_calls, regVars, chanVars, guiVars,
                   peerVars, wireVars, histVars>>

SrvFinallySweep ==
    /\ srv.pc = "sweep"
    /\ StopSweep(srv.reason)
    /\ srv' = [srv EXCEPT !.pc = "done"]
    /\ UNCHANGED <<stop_event, backlog, ext_stop, clients_dict, clients_lock, rsa_keys,
                   pause_event, command_queue, frame_queue, guiVars, peerVars, wireVars,
                   wlog, hs_done, hs_failed, nextId, rendered,
                   lastpop, drawn, ui_kicked, accept_raised>>

----------------------------------------------------------------------------
\* The Tk callback queue.  A callback scheduled with root.after(0, f) is a
\* record: f names the function, a its address (None for a lambda that reads
\* a local of CommandConsumer.run when it runs), n and sz the frame of an
\* update; due is history: the identity the callback was scheduled about.
Callback(f, a, n, sz, due) == [f |-> f, a |-> a, n |-> n, sz |-> sz, due |-> due]

\* `lambda: self.app.cleanup(addr)` in CommandConsumer.run: addr is read
\* from the loop variable when the callback runs.
CleanupAddr(due) == Callback("cleanup_addr", None, 0, 0, due)

\* `lambda: self.app.kick(client_address)` in CommandConsumer.run:
\* client_address is read when the callback runs.
KickClientAddress(due) == Callback("kick_client_address", None, 0, 0, due)

\* `lambda: self.app.cleanup(self.client_address)` in ClientHandler.run.
CleanupSelf(p) == Callback("cleanup", p, 0, 0, p)

----------------------------------------------------------------------------
\* CommandConsumer.run.

Broadcast == {"pause", "unpause"}

\* Fault injection: a resize that goes to every peer whatever its target.
TargetsResizeAll(e, d) ==
    IF e.op \in Broadcast \/ e.op = "resize" THEN d
    ELSE IF InSeq(e.target, d) THEN <<e.target>>
    ELSE <<>>

\* Fault injection: a channel read that hands out the newest entry.
GetNewest(q) == q[Len(q)]

\* queue.Queue.get: the entry taken from the Command Channel.
Get(q) == Head(q)

\* The next entry is taken; pause/unpause set or clear the pause flag
\* before the registry lock is requested.
CcGet ==
    /\ cc.pc = "get"
    /\ command_queue # <<>>
    /\ LET e == Get(command_queue) IN
         /\ command_queue' = Tail(command_queue)
         /\ cc' = [cc EXCEPT !.pc = "lock", !.client_address = e.target, !.cmd = e,
                             !.snap = <<>>, !.failed = {}]
         /\ pause_event' = IF e.op = "pause" THEN TRUE
                           ELSE IF e.op = "unpause" THEN FALSE
                           ELSE pause_event
    /\ UNCHANGED <<srvVars, regVars, frame_queue, fc, guiVars, peerVars, wireVars, histVars>>

\* `while not self.stop_event.is_set()` ends the loop.
CcExit ==
    /\ cc.pc = "get"
    /\ cc.stop
    /\ cc' = [cc EXCEPT !.pc = "done"]
    /\ UNCHANGED <<srvVars, regVars, pause_event, command_queue, frame_queue, fc, guiVars,
                   peerVars, wireVars, histVars>>

\* Fault injection: a dispatcher that writes to the named peer whether or
\* not it is registered.
TargetsUnregistered(e, d) ==
    IF e.op \in Broadcast THEN d
    ELSE IF e.op = "resize" /\ e.target = None THEN d
    ELSE IF e.target # None THEN <<e.target>>
    ELSE <<>>

\* The peers a command is to be offered to, in iteration order: the whole
\* registry for pause/unpause (the originator is skipped inside the loop)
\* and for a resize with target None; else the named peer if registered.
Targets(e, d) ==
    IF e.op \in Broadcast THEN d
    ELSE IF e.op = "resize" /\ e.target = None THEN d
    ELSE IF InSeq(e.target, d) THEN <<e.target>>
    ELSE <<>>

\* `with self.clients_lock:` is entered and the targets are listed.
CcLock ==
    /\ cc.pc = "lock"
    /\ clients_lock = "free"
    /\ LET t == Targets(cc.cmd, clients_dict) IN
         /\ cc' = [cc EXCEPT !.pc = IF t = <<>> THEN "get" ELSE "send",
                             !.targets = t, !.snap = clients_dict]
         /\ clients_lock' = IF t = <<>> THEN "free" ELSE "cc"
    /\ UNCHANGED <<srvVars, clients_dict, handler, ssock, rsa_keys, pause_event,
                   command_queue, frame_queue, fc, guiVars, peerVars, wireVars, histVars>>

\* Fault injection: a broadcast that does not skip the originator.
SendsToAll(e, a) == TRUE

\* Whether the loop body sends to addr: pause/unpause skip the originator.
Sends(e, a) == ~(e.op \in Broadcast /\ a = e.target)

\* Fault injection: a `kick` that went through leaves the entry in place.
RemovesNever(e) == FALSE

\* Whether a send that went through ends the entry: only `kick` does.
RemovesAfterSend(e) == e.op = "kick"

\* The callback a failed send schedules.
OnSendFailure(e, a) ==
    IF e.op \in Broadcast \/ e.op = "resize" THEN CleanupAddr(a) ELSE KickClientAddress(a)

\* One iteration of the send loop, under the registry lock: the command
\* record is written to the next target; a failed write stops that peer's
\* ingestor, deletes its entry and schedules the callback; a `kick` that
\* went through stops the ingestor and deletes the entry.  The lock is
\* released after the last target.
CcSend ==
    /\ cc.pc = "send"
    /\ LET a == Head(cc.targets)
           e == cc.cmd
           rest == Tail(cc.targets)
           r == CmdRecord(e.op, e.sz, e.id)
       IN
         /\ clients_lock' = IF rest = <<>> THEN "free" ELSE "cc"
         /\ IF ~Sends(e, a)
            THEN /\ cc' = [cc EXCEPT !.addr = IF e.op \in Broadcast \/ e.op = "resize"
                                              THEN a ELSE @,
                                     !.targets = rest,
                                     !.pc = IF rest = <<>> THEN "get" ELSE "send"]
                 /\ UNCHANGED <<s2c, wlog, handler, clients_dict, afterQ, terminal, keys,
                                tx>>
            ELSE \E res \in SendOutcomes(a) :
                   /\ s2c' = Sent(s2c, a, r, res)
                   /\ wlog' = Logged(wlog, a, r, res)
                   /\ keys' = [keys EXCEPT !.used[a] = @ \cup {keys.entry[a]}]
                   /\ tx' = Ended(tx, a, "cc", e.id, res)
                   /\ cc' = [cc EXCEPT !.addr = IF e.op \in Broadcast \/ e.op = "resize"
                                                THEN a ELSE @,
                                       !.targets = rest,
                                       !.pc = IF rest = <<>> THEN "get" ELSE "send",
                                       !.failed = IF res = "fail" THEN @ \cup {a} ELSE @]
                   /\ IF res = "fail" \/ RemovesAfterSend(e)
                      THEN /\ handler' = [handler EXCEPT ![a].stop = TRUE]
                           /\ clients_dict' = Without(clients_dict, a)
                           /\ terminal' = terminal \cup {a}
                      ELSE UNCHANGED <<handler, clients_dict, terminal>>
                   /\ afterQ' = IF res = "fail"
                                THEN Append(afterQ, OnSendFailure(e, a))
                                ELSE afterQ
    /\ UNCHANGED <<srvVars, ssock, rsa_keys, pause_event, command_queue, frame_queue, fc,
                   kicked_addresses, buttons, fullscreen_address, fullscreen_widget,
                   control_switch, block_states, button_size, shutdown_event, gui, ops,
                   peerVars, c2s, may_connect, lk, rx, faults, now, hs_done, hs_failed, nextId,
                   rendered, lastpop, drawn, ui_kicked, accept_raised>>

\* One of the first two send() calls of the send loop's current record
\* goes through.
CcSendField ==
    /\ cc.pc = "send"
    /\ Sends(cc.cmd, Head(cc.targets))
    /\ tx.cc < 2
    /\ "fail" \notin SendOutcomes(Head(cc.targets))
    /\ tx' = OneField(tx, Head(cc.targets), "cc", cc.cmd.id)
    /\ UNCHANGED <<srvVars, regVars, chanVars, guiVars, peerVars, s2c, c2s, may_connect, lk, rx,
                   keys, faults, now, histVars>>

----------------------------------------------------------------------------
\* ClientHandler.run (the Frame Ingestor of one peer).

\* A Frame Channel item (client_address, frame, timestamp); n numbers the
\* frames of one peer in the order the peer published them.
Frame(a, n, sz, ts) == [a |-> a, n |-> n, sz |-> sz, ts |-> ts]

\* `if elapsed < self.min_frame_interval`
TooFast(p) == handler[p].recent

\* Fault injection: an ingestor that skips the record it read too early.
DropWhenFast(q, f, fast) == IF fast THEN q ELSE Append(q, f)

\* The pacing branch only sleeps: the read and the put follow it either way.
AfterPacing(q, f, fast) == Append(q, f)

\* Fault injection: an ingestor that does not look at its stop signal.
StopIgnored(p) == FALSE

\* `self.stop_event.is_set()` in the loop condition of ClientHandler.run.
StopSeen(p) == handler[p].stop

\* `while not self.stop_event.is_set()`: the loop is left (the finally block
\* closes the socket), or the next read begins, after a sleep if the last
\* frame is less than min_frame_interval old.
IngCheck(p) ==
    /\ handler[p].pc = "check"
    /\ IF StopSeen(p)
       THEN /\ handler' = [handler EXCEPT ![p].pc = "dead"]
            /\ ssock' = [ssock EXCEPT ![p] = "closed"]
       ELSE /\ handler' = [handler EXCEPT ![p].pc = "read"]
            /\ UNCHANGED ssock
    /\ UNCHANGED <<srvVars, clients_dict, clients_lock, rsa_keys, chanVars, guiVars,
                   peerVars, wireVars, histVars>>

\* Fault injection: an ingestor that takes a zero length for a frame.
NeverEmpty(r) == FALSE

\* `if image_size == 0`
EmptyFrame(r) == r.kind = "frame" /\ r.len = 0

\* A frame record is read, decrypted, decompressed, stamped and put on the
\* Frame Channel.
IngRead(p) ==
    /\ handler[p].pc = "read"
    /\ ssock[p] = "open"
    /\ c2s[p] # <<>>
    /\ LET r == Head(c2s[p]) IN
         /\ r.kind = "frame"
         /\ ~EmptyFrame(r)
         /\ frame_queue' = AfterPacing(frame_queue, Frame(p, r.id, r.sz, now), TooFast(p))
    /\ c2s' = [c2s EXCEPT ![p] = Tail(@)]
    /\ handler' = [handler EXCEPT ![p].pc = "check", ![p].recent = TRUE,
                                  ![p].late = IF handler[p].stop THEN @ + 1 ELSE @]
    /\ UNCHANGED <<srvVars, clients_dict, clients_lock, ssock, rsa_keys, pause_event,
                   command_queue, cc, fc, guiVars, peerVars, s2c, may_connect, tx, lk, rx, keys, faults, now,
                   histVars>>

\* Fault injection: an ingestor that schedules its cleanup whatever the
\* shutdown flag says.
CleanupAlways == TRUE

\* `if not self.app.shutdown_event.is_set()` in the except block.
CleanupWanted == ~shutdown_event

\* The read raises (the socket was closed on this side, or the stream ended)
\* or the length field read is zero: cleanup of this identity is scheduled
\* unless the application is shutting down, and the socket is closed.
IngError(p) ==
    /\ handler[p].pc = "read"
    /\ \/ ssock[p] # "open"
       \/ c2s[p] = <<>> /\ psock[p] # "open"
       \/ c2s[p] # <<>> /\ EmptyFrame(Head(c2s[p]))
       \/ c2s[p] # <<>> /\ Head(c2s[p]).kind = "corrupt"
    /\ afterQ' = IF CleanupWanted THEN Append(afterQ, CleanupSelf(p)) ELSE afterQ
    /\ handler' = [handler EXCEPT ![p].pc = "dead"]
    /\ ssock' = [ssock EXCEPT ![p] = "closed"]
    /\ terminal' = terminal \cup {p}
    /\ UNCHANGED <<srvVars, clients_dict, clients_lock, rsa_keys, chanVars,
                   kicked_addresses, buttons, fullscreen_address, fullscreen_widget,
                   control_switch, block_states, button_size, shutdown_event, gui, ops,
                   peerVars, wireVars, wlog, hs_done, hs_failed, nextId, rendered,
                   lastpop, drawn, ui_kicked, accept_raised>>

----------------------------------------------------------------------------
\* FrameConsumer.run and ServerGui.update_screen, which it calls.

\* FrameConsumer.max_frame_age (0.5 s), in tenths of a second.
max_frame_age == 5

\* Fault injection: a consumer that lets frames up to a second old through.
FreshWithinASecond(f, t) == t - f.ts <= 2 * max_frame_age

\* `time.time() - timestamp <= self.max_frame_age`
Fresh(f, t) == t - f.ts <= max_frame_age

\* Fault injection: a consumer without the full-view filter.
ShownAlways(f) == TRUE

\* The full-view filter of FrameConsumer.run.
Shown(f) == ~fullscreen_widget \/ fullscreen_address = f.a

\* The size update_screen wants the image of address a to have.
WantedSize(a) == IF fullscreen_address = a THEN FullSize ELSE button_size

\* Fault injection: a renderer that ignores frames only during shutdown.
IgnoredOnShutdown(a) == shutdown_event

\* The two tests at the top of update_screen and of
\* _update_screen_on_main_thread: nothing is done during shutdown or for a
\* kicked address.
Ignored(a) == shutdown_event \/ a \in kicked_addresses

\* `lambda: self._update_screen_on_main_thread(address, preview_photo,
\* fullscreen_photo)`: f records which of the two photos was made.
Update(f) == Callback(IF fullscreen_address = f.a THEN "update_full" ELSE "update_preview",
                      f.a, f.n, 0, f.a)

\* One frame is taken from the Frame Channel; a fresh one that passes the
\* full-view filter goes to update_screen, which ignores it during shutdown
\* or for a kicked address, asks for a resize if the size is not the wanted
\* one, and schedules the widget update on the main thread.
FcPop ==
    /\ fc.pc = "get"
    /\ frame_queue # <<>>
    /\ LET f == Head(frame_queue)
           call == Fresh(f, now) /\ Shown(f)
           draw == call /\ ~Ignored(f.a)
           ask == draw /\ f.sz # WantedSize(f.a)
       IN
         /\ frame_queue' = Tail(frame_queue)
         /\ rendered' = IF call THEN [rendered EXCEPT ![f.a] = Append(@, f.n)] ELSE rendered
         /\ lastpop' = [a |-> f.a, n |-> f.n, age |-> now - f.ts,
                        widget |-> fullscreen_widget, full |-> fullscreen_address,
                        fwd |-> call]
         /\ command_queue' = IF ask
                             THEN Put(command_queue, f.a, "resize", WantedSize(f.a), nextId + 1)
                             ELSE command_queue
         /\ nextId' = IF ask THEN nextId + 1 ELSE nextId
         /\ afterQ' = IF draw THEN Append(afterQ, Update(f)) ELSE afterQ
    /\ UNCHANGED <<srvVars, regVars, pause_event, cc, fc, kicked_addresses, buttons,
                   fullscreen_address, fullscreen_widget, control_switch, block_states,
                   button_size, shutdown_event, gui, ops, peerVars, wireVars,
                   wlog, hs_done, hs_failed, terminal, drawn, ui_kicked, accept_raised>>

\* `while not self.stop_event.is_set()` ends the loop.
FcExit ==
    /\ fc.pc = "get"
    /\ fc.stop
    /\ fc' = [fc EXCEPT !.pc = "done"]
    /\ UNCHANGED <<srvVars, regVars, pause_event, command_queue, frame_queue, cc, guiVars,
                   peerVars, wireVars, histVars>>

----------------------------------------------------------------------------
\* The Tk main thread: callbacks scheduled with root.after and the
\* operator's UI events, one at a time.

\* ServerGui.exit_fullscreen: the widget is destroyed, `unpause` is put with
\* the full-view address as originator, the address is cleared and the
\* thumbnails are laid out again.
exit_fullscreen ==
    /\ fullscreen_widget' = FALSE
    /\ command_queue' = Put(command_queue, fullscreen_address, "unpause", 0, nextId + 1)
    /\ nextId' = nextId + 1
    /\ fullscreen_address' = None
    /\ control_switch' = FALSE
    /\ button_size' = organize_screens(Cardinality(buttons), button_size)

\* The address a callback acts on, read when the callback runs.
Resolve(cb) ==
    IF cb.f = "cleanup_addr" THEN cc.addr
    ELSE IF cb.f = "kick_client_address"
         THEN (IF cc.client_address # None THEN cc.client_address ELSE fullscreen_address)
    ELSE cb.a

\* The first part of ServerGui.cleanup(target), up to the call of
\* remove_frames_for_address; kick(target) puts `kick` and adds the target
\* to the kicked set before it.
BeginCleanup(f, target, due, kick) ==
    /\ buttons' = buttons \ {target}
    /\ block_states' = block_states \ {target}
    /\ gui' = [pc |-> "drain", f |-> f, target |-> target, due |-> due, temp_list |-> <<>>]
    /\ IF kick
       THEN /\ command_queue' = Put(command_queue, target, "kick", 0, nextId + 1)
            /\ nextId' = nextId + 1
            /\ kicked_addresses' = kicked_addresses \cup {target}
       ELSE UNCHANGED <<command_queue, nextId, kicked_addresses>>

\* A scheduled cleanup or kick runs.
GuiCleanup ==
    /\ gui.pc = "idle"
    /\ afterQ # <<>>
    /\ LET cb == Head(afterQ)
           target == Resolve(cb)
       IN
         /\ cb.f \in {"cleanup", "cleanup_addr", "kick_client_address"}
         /\ afterQ' = Tail(afterQ)
         /\ IF target = None
            THEN UNCHANGED <<buttons, block_states, gui, command_queue, nextId,
                             kicked_addresses>>
            ELSE BeginCleanup(cb.f, target, cb.due, cb.f = "kick_client_address")
    /\ UNCHANGED <<srvVars, regVars, pause_event, frame_queue, cc, fc, fullscreen_address,
                   fullscreen_widget, control_switch, button_size, shutdown_event, ops,
                   peerVars, wireVars, wlog, hs_done, hs_failed, terminal, rendered,
                   lastpop, drawn, ui_kicked, accept_raised>>

\* remove_frames_for_address, first loop: one item is taken from the Frame
\* Channel and kept unless it is the target's; the loop ends when the
\* channel is seen empty.
GuiDrain ==
    /\ gui.pc = "drain"
    /\ IF frame_queue = <<>>
       THEN /\ gui' = [gui EXCEPT !.pc = "refill"]
            /\ UNCHANGED frame_queue
       ELSE /\ frame_queue' = Tail(frame_queue)
            /\ gui' = [gui EXCEPT !.temp_list =
                          IF Head(frame_queue).a # gui.target
                          THEN Append(@, Head(frame_queue)) ELSE @]
    /\ UNCHANGED <<srvVars, regVars, pause_event, command_queue, cc, fc, kicked_addresses,
                   buttons, fullscreen_address, fullscreen_widget, control_switch,
                   block_states, button_size, shutdown_event, afterQ, ops,
                   peerVars, wireVars, histVars>>

\* remove_frames_for_address, second loop: one kept item is put back.
GuiRefill ==
    /\ gui.pc = "refill"
    /\ gui.temp_list # <<>>
    /\ frame_queue' = Append(frame_queue, Head(gui.temp_list))
    /\ gui' = [gui EXCEPT !.temp_list = Tail(@)]
    /\ UNCHANGED <<srvVars, regVars, pause_event, command_queue, cc, fc, kicked_addresses,
                   buttons, fullscreen_address, fullscreen_widget, control_switch,
                   block_states, button_size, shutdown_event, afterQ, ops,
                   peerVars, wireVars, histVars>>

\* The end of ServerGui.cleanup: the full view is left if it showed the
\* target, else the thumbnails are laid out again.
GuiCleanupEnd ==
    /\ gui.pc = "refill"
    /\ gui.temp_list = <<>>
    /\ gui' = [gui EXCEPT !.pc = "idle"]
    /\ IF fullscreen_address = gui.target
       THEN exit_fullscreen
       ELSE /\ button_size' = organize_screens(Cardinality(buttons), button_size)
            /\ UNCHANGED <<fullscreen_widget, command_queue, nextId, fullscreen_address,
                           control_switch>>
    /\ UNCHANGED <<srvVars, regVars, pause_event, frame_queue, cc, fc, kicked_addresses,
                   buttons, block_states, shutdown_event, afterQ, ops,
                   peerVars, wireVars, wlog, hs_done, hs_failed, terminal, rendered,
                   lastpop, drawn, ui_kicked, accept_raised>>

\* ServerGui.on_close (the window is closed): the shutdown flag is set and
\* root.destroy is scheduled.
OnClose ==
    /\ gui.pc = "idle"
    /\ ~shutdown_event
    /\ shutdown_event' = TRUE
    /\ afterQ' = Append(afterQ, Callback("destroy", None, 0, 0, None))
    /\ UNCHANGED <<srvVars, regVars, chanVars, kicked_addresses, buttons, fullscreen_address,
                   fullscreen_widget, control_switch, block_states, button_size, gui, ops,
                   peerVars, wireVars, histVars>>

\* root.destroy runs: the main loop ends and no callback runs after it.
GuiDestroy ==
    /\ gui.pc = "idle"
    /\ afterQ # <<>>
    /\ Head(afterQ).f = "destroy"
    /\ afterQ' = <<>>
    /\ gui' = [gui EXCEPT !.pc = "closed"]
    /\ UNCHANGED <<srvVars, regVars, chanVars, kicked_addresses, buttons, fullscreen_address,
                   fullscreen_widget, control_switch, block_states, button_size,
                   shutdown_event, ops, peerVars, wireVars, histVars>>

\* ServerGui._update_screen_on_main_thread: nothing during shutdown or for a
\* kicked address; a full-view photo updates the full view if it still shows
\* that address; a preview photo updates the thumbnail, or adds one
\* (_add_screen_on_main_thread: the thumbnails are laid out again unless a
\* full view is shown, and a resize for every peer is put).
GuiUpdate ==
    /\ gui.pc = "idle"
    /\ afterQ # <<>>
    /\ LET cb == Head(afterQ)
           add == /\ cb.f = "update_preview"
                  /\ ~Ignored(cb.a)
                  /\ cb.a \notin buttons
           draws == /\ ~Ignored(cb.a)
                    /\ cb.f = "update_full" => fullscreen_widget /\ fullscreen_address = cb.a
           size == organize_screens(Cardinality(buttons) + 1, button_size)
       IN
         /\ cb.f \in {"update_full", "update_preview"}
         /\ afterQ' = Tail(afterQ)
         /\ buttons' = IF add THEN buttons \cup {cb.a} ELSE buttons
         /\ drawn' = IF draws THEN [drawn EXCEPT ![cb.a] = @ \cup {cb.n}] ELSE drawn
         /\ IF add /\ ~fullscreen_widget
            THEN /\ button_size' = size
                 /\ command_queue' = Put(command_queue, None, "resize", size, nextId + 1)
                 /\ nextId' = nextId + 1
            ELSE UNCHANGED <<button_size, command_queue, nextId>>
    /\ UNCHANGED <<srvVars, regVars, pause_event, frame_queue, cc, fc, kicked_addresses,
                   fullscreen_address, fullscreen_widget, control_switch, block_states,
                   shutdown_event, gui, ops, peerVars, wireVars,
                   wlog, hs_done, hs_failed, terminal, rendered,
                   lastpop, ui_kicked, accept_raised>>

\* The operator clicks a thumbnail: ServerGui.toggle_fullscreen(p).
UiToggleFullscreen(p) ==
    /\ gui.pc = "idle"
    /\ ops < MaxOps
    /\ p \in buttons
    /\ ~fullscreen_widget
    /\ fullscreen_address' = p
    /\ command_queue' = Put(command_queue, p, "pause", 0, nextId + 1)
    /\ nextId' = nextId + 1
    /\ fullscreen_widget' = TRUE
    /\ control_switch' = FALSE
    /\ ops' = ops + 1
    /\ UNCHANGED <<srvVars, regVars, pause_event, frame_queue, cc, fc, kicked_addresses,
                   buttons, block_states, button_size, shutdown_event, afterQ, gui,
                   peerVars, wireVars, wlog, hs_done, hs_failed, terminal, rendered,
                   lastpop, drawn, ui_kicked, accept_raised>>

\* The operator presses the full view's exit button.
UiExitFullscreen ==
    /\ gui.pc = "idle"
    /\ ops < MaxOps
    /\ fullscreen_widget
    /\ exit_fullscreen
    /\ ops' = ops + 1
    /\ UNCHANGED <<srvVars, regVars, pause_event, frame_queue, cc, fc, kicked_addresses,
                   buttons, block_states, shutdown_event, afterQ, gui,
                   peerVars, wireVars, wlog, hs_done, hs_failed, terminal, rendered,
                   lastpop, drawn, ui_kicked, accept_raised>>

\* The operator presses the full view's kick button: ServerGui.kick().
UiKick ==
    /\ gui.pc = "idle"
    /\ ops < MaxOps
    /\ fullscreen_widget
    /\ fullscreen_address # None
    /\ BeginCleanup("kick", fullscreen_address, fullscreen_address, TRUE)
    /\ ui_kicked' = ui_kicked \cup {fullscreen_address}
    /\ ops' = ops + 1
    /\ UNCHANGED <<srvVars, regVars, pause_event, frame_queue, cc, fc, fullscreen_address,
                   fullscreen_widget, control_switch, button_size, shutdown_event, afterQ,
                   peerVars, wireVars, wlog, hs_done, hs_failed, terminal, rendered,
                   lastpop, drawn, accept_raised>>

\* The operator presses the block / unblock button, or clicks into the full
\* view while control is on (handle_mouse_click).
UiCommand(op) ==
    /\ gui.pc = "idle"
    /\ ops < MaxOps
    /\ fullscreen_widget
    /\ fullscreen_address # None
    /\ \/ op = "block" /\ fullscreen_address \notin block_states
       \/ op = "unblock" /\ fullscreen_address \in block_states
       \/ op = "button" /\ control_switch
    /\ command_queue' = Put(command_queue, fullscreen_address, op, 0, nextId + 1)
    /\ nextId' = nextId + 1
    /\ block_states' = IF op = "block" THEN block_states \cup {fullscreen_address}
                       ELSE IF op = "unblock" THEN block_states \ {fullscreen_address}
                       ELSE block_states
    /\ ops' = ops + 1
    /\ UNCHANGED <<srvVars, regVars, pause_event, frame_queue, cc, fc, kicked_addresses,
                   buttons, fullscreen_address, fullscreen_widget, control_switch,
                   button_size, shutdown_event, afterQ, gui,
                   peerVars, wireVars, wlog, hs_done, hs_failed, terminal, rendered,
                   lastpop, drawn, ui_kicked, accept_raised>>

\* The operator presses the control start / stop button.
UiControl ==
    /\ gui.pc = "idle"
    /\ ops < MaxOps
    /\ fullscreen_widget
    /\ fullscreen_address # None
    /\ control_switch' = ~control_switch
    /\ ops' = ops + 1
    /\ UNCHANGED <<srvVars, regVars, chanVars, kicked_addresses, buttons,
                   fullscreen_address, fullscreen_widget, block_states, button_size,
                   shutdown_event, afterQ, gui, peerVars, wireVars, histVars>>

----------------------------------------------------------------------------
\* The peer: Client.run with Client.key_exchange and Client.stop, and
\* ScreenShare.run.

\* The threads that call Client.stop: Client.run from its finally block, and
\* the application (an external stop request).
Callers == {"run", "ext"}

\* Fault injection: a Client.stop that does not call disconnect_callback.
\* What the command loop is doing with the command it has read (pc "idle"
\* between two commands), whether handle_command found the block flag set,
\* and whether UserBlocker's suppressing listeners are running.
Handling(at, cmd, was, l) ==
    [pc |-> at, cmd |-> cmd, was_blocking |-> was, listening |-> l]

NoCmd == CmdRecord("", 0, 0)

\* UserBlocker.start_blocking / stop_blocking: the listeners afterwards.
start_blocking == TRUE
stop_blocking == FALSE

\* Commands handed to InputController.handle_command; the injection of a
\* malformed one (a coordinate that is not a number, a missing field)
\* raises inside handle_command.
Injections == {"button", "button_malformed"}
Raises(r) == r.op = "button_malformed"

\* The listeners after one whole iteration of the command loop on r, given
\* the block flag and the listeners before it: block starts them, unblock
\* stops them, handle_command with the flag set stops them and starts them
\* again after the injection unless the injection raised.
Suppressed(l, flag, r) ==
    IF r.op = "block" THEN start_blocking
    ELSE IF r.op = "unblock" THEN stop_blocking
    ELSE IF r.op \in Injections /\ flag
         THEN (IF Raises(r) THEN stop_blocking ELSE start_blocking)
    ELSE l

ClientStopSilently(p, reason) ==
    /\ pc' = [pc EXCEPT ![p] = "stopped"]
    /\ psock' = [psock EXCEPT ![p] = "closed"]
    /\ preason' = preason
    /\ share' = [share EXCEPT ![p].stop = TRUE]
    /\ cstop' = [cstop EXCEPT ![p].disconnected = TRUE, ![p].bodies = @ + 1,
                              ![p].first = reason]
    /\ input' = [input EXCEPT ![p].listening = stop_blocking]

\* Client.stop(stop_reason) called by Client.run while no other thread calls
\* it, as one step: the flag is set, the publisher is told to stop, input
\* suppression is released, the socket is closed and disconnect_callback is
\* called with the reason.
ClientStop(p, reason) ==
    /\ pc' = [pc EXCEPT ![p] = "stopped"]
    /\ psock' = [psock EXCEPT ![p] = "closed"]
    /\ preason' = [preason EXCEPT ![p] = Append(@, reason)]
    /\ share' = [share EXCEPT ![p].stop = TRUE]
    /\ cstop' = [cstop EXCEPT ![p].disconnected = TRUE, ![p].bodies = @ + 1,
                              ![p].first = reason]
    /\ input' = [input EXCEPT ![p].listening = stop_blocking]

\* self.client.connect: the connection enters the listen backlog.
PeerConnect(p) ==
    /\ p \in may_connect
    /\ pc[p] = "new"
    /\ listener = "listening"
    /\ may_connect' = may_connect \ {p}
    /\ UNCHANGED <<rx, keys, tx, lk>>
    /\ backlog' = Append(backlog, p)
    /\ psock' = [psock EXCEPT ![p] = "open"]
    /\ pc' = [pc EXCEPT ![p] = "AwaitingPeerKey"]
    /\ UNCHANGED <<stop_event, listener, srv, ext_stop, close_calls, regVars, chanVars,
                   guiVars, ppause, pblock, input, pimg, preason, sent, share, cstop, s2c, c2s,
                   faults, now, histVars>>

\* key_exchange, first step: the peer's public key record is sent.
PeerSendKey(p) ==
    /\ pc[p] = "AwaitingPeerKey"
    /\ c2s' = [c2s EXCEPT ![p] = Append(@, KeyRecord("pubkey"))]
    /\ wlog' = [wlog EXCEPT ![p] = Append(@, KeyRecord("peerkey"))]
    /\ pc' = [pc EXCEPT ![p] = "AwaitingOperatorKey"]
    /\ UNCHANGED <<srvVars, regVars, chanVars, guiVars, psock, ppause, pblock, input, pimg,
                   preason, sent, share, cstop, s2c, may_connect, tx, lk, rx, keys, faults, now,
                   hs_done, hs_failed, terminal, nextId, rendered,
                   lastpop, drawn, ui_kicked, accept_raised>>

\* key_exchange, second and third step: the operator's public key record,
\* then the encrypted symmetric key record, are read; after the third the
\* publisher is started.
PeerRecvKey(p) ==
    /\ pc[p] \in {"AwaitingOperatorKey", "AwaitingSessionKey"}
    /\ s2c[p] # <<>>
    /\ s2c' = [s2c EXCEPT ![p] = Tail(@)]
    /\ pc' = [pc EXCEPT ![p] = IF @ = "AwaitingOperatorKey" THEN "AwaitingSessionKey"
                               ELSE "Established"]
    /\ share' = IF pc[p] = "AwaitingSessionKey" THEN [share EXCEPT ![p].pc = "loop"]
                ELSE share
    /\ keys' = IF pc[p] = "AwaitingSessionKey"
               THEN [keys EXCEPT !.peer[p] = rsa_decrypt(p, keys.wire[p])]
               ELSE keys
    /\ UNCHANGED <<srvVars, regVars, chanVars, guiVars, psock, ppause, pblock, input, pimg,
                   preason, sent, cstop, c2s, may_connect, tx, lk, rx, faults, now, histVars>>

\* The stream ends while the peer waits for a record: in key_exchange the
\* error leaves run through its finally block ("client crashed"), in the
\* command loop it is caught ("session closed").
PeerEof(p) ==
    /\ pc[p] \in {"AwaitingOperatorKey", "AwaitingSessionKey", "Established"}
    /\ s2c[p] = <<>>
    /\ ssock[p] = "closed"
    /\ ClientStop(p, IF pc[p] = "Established" THEN "session closed" ELSE "client crashed")
    /\ UNCHANGED <<srvVars, regVars, chanVars, guiVars, ppause, pblock, pimg, sent,
                   wireVars, histVars>>

\* Command texts that begin with "resize" but are not `resize:<w>:<h>`
\* ("resize:<w>", "resize:<w>:<h>:<n>", "resize:<w>:<word>"), and one text
\* that no branch of the command loop matches.
MalformedResizes == {"resize_short", "resize_long", "resize_word"}
UnknownCommands == {"hello"}

\* `command.split(":")`: the fields of the command text, a dimension being
\* a numeral ("int") or not ("word").
Split(r) ==
    IF r.op = "resize" THEN <<"resize", "int", "int">>
    ELSE IF r.op = "resize_short" THEN <<"resize", "int">>
    ELSE IF r.op = "resize_long" THEN <<"resize", "int", "int", "int">>
    ELSE IF r.op = "resize_word" THEN <<"resize", "int", "word">>
    ELSE <<r.op>>

\* `command.startswith("resize")`.
StartsWithResize(r) == Split(r)[1] = "resize"

\* Fault injection: a resize branch that takes any text for well-formed.
ResizeAlwaysParses(r) == TRUE

\* `_, width, height = command.split(":")` and `int(width), int(height)`
\* go through without ValueError.
ResizeParses(r) ==
    /\ Len(Split(r)) = 3
    /\ Split(r)[2] = "int"
    /\ Split(r)[3] = "int"

\* The dispatch of one decrypted command in Client.run: resize sets the
\* capture size unless the text does not parse (the ValueError is caught),
\* block / unblock the input suppression, pause / unpause the publisher's
\* pause flag; a text that matches no branch does nothing.
Apply(p, r) ==
    /\ pimg' = IF StartsWithResize(r) /\ ResizeParses(r)
               THEN [pimg EXCEPT ![p] = r.sz] ELSE pimg
    /\ pblock' = IF r.op = "block" THEN [pblock EXCEPT ![p] = TRUE]
                 ELSE IF r.op = "unblock" THEN [pblock EXCEPT ![p] = FALSE]
                 ELSE pblock
    /\ ppause' = IF r.op = "pause" THEN [ppause EXCEPT ![p] = TRUE]
                 ELSE IF r.op = "unpause" THEN [ppause EXCEPT ![p] = FALSE]
                 ELSE ppause

\* One iteration of the command loop: a command record is read, decrypted
\* and applied; `kick` leaves the loop and runs Client.stop.
PeerCommand(p) ==
    /\ pc[p] = "Established"
    /\ s2c[p] # <<>>
    /\ LET r == Head(s2c[p]) IN
         /\ s2c' = [s2c EXCEPT ![p] = Tail(@)]
         /\ Apply(p, r)
         /\ IF r.op = "kick"
            THEN ClientStop(p, "kicked from session")
            ELSE /\ input' = [input EXCEPT
                                 ![p].listening = Suppressed(@, pblock[p], r)]
                 /\ UNCHANGED <<pc, psock, preason, share, cstop>>
    /\ UNCHANGED <<srvVars, regVars, chanVars, guiVars, sent, c2s, may_connect, tx, lk, rx, keys, faults, now,
                   histVars>>

\* A command record with text op arrives at peer p.
TextArrives(p, op) ==
    /\ pc[p] = "Established"
    /\ ops < MaxOps
    /\ ops' = ops + 1
    /\ s2c' = [s2c EXCEPT ![p] = Append(@, CmdRecord(op, FullSize, ops + 1))]
    /\ wlog' = [wlog EXCEPT ![p] = Append(@, CmdRecord(op, FullSize, ops + 1))]
    /\ UNCHANGED <<srvVars, regVars, chanVars, kicked_addresses, buttons,
                   fullscreen_address, fullscreen_widget, control_switch, block_states,
                   button_size, shutdown_event, afterQ, gui, peerVars, c2s, may_connect,
                   tx, lk, rx, keys, faults, now, hs_done, hs_failed, terminal, nextId,
                   rendered, lastpop, drawn, ui_kicked, accept_raised>>

\* Client.stop at the granularity of its lock, for callers that may overlap.

\* Fault injection: a stop lock that never makes a caller wait.
LockAny(p) == TRUE

\* `with self._lock:` can be entered.
CanLock(p) == cstop[p].lock = "free"

\* Caller c calls Client.stop(reason).
StopCall(p, c, reason) ==
    cstop' = [cstop EXCEPT ![p].call[c] = [pc |-> "lock", reason |-> reason]]

\* One iteration of the command loop, as PeerCommand, where `kick` leaves the
\* loop for the finally block, which calls Client.stop.
RunCommand(p) ==
    /\ pc[p] = "Established"
    /\ input[p].pc = "idle"
    /\ psock[p] = "open"
    /\ s2c[p] # <<>>
    /\ LET r == Head(s2c[p]) IN
         /\ s2c' = [s2c EXCEPT ![p] = Tail(@)]
         /\ Apply(p, r)
         /\ input' = [input EXCEPT ![p].listening = Suppressed(@, pblock[p], r)]
         /\ IF r.op = "kick"
            THEN /\ pc' = [pc EXCEPT ![p] = "finally"]
                 /\ StopCall(p, "run", "kicked from session")
            ELSE UNCHANGED <<pc, cstop>>
    /\ UNCHANGED <<srvVars, regVars, chanVars, guiVars, psock, preason, sent, share, c2s,
                   may_connect, tx, lk, rx, keys, faults, now, histVars>>

\* The read of the command loop raises: the stream has ended (a
\* ConnectionError, "session closed"), or the socket was closed under the
\* loop by Client.stop (a ConnectionError or another OSError, whose reason
\* stays "client crashed"); the finally block calls Client.stop.
RunError(p) ==
    /\ pc[p] = "Established"
    /\ input[p].pc = "idle"
    /\ s2c[p] = <<>> \/ psock[p] # "open"
    /\ \E reason \in {"session closed", "client crashed"} :
         /\ \/ psock[p] = "closed"
            \/ ssock[p] = "closed" /\ reason = "session closed"
         /\ pc' = [pc EXCEPT ![p] = "finally"]
         /\ StopCall(p, "run", reason)
    /\ UNCHANGED <<srvVars, regVars, chanVars, guiVars, psock, ppause, pblock, input, pimg,
                   preason, sent, share, wireVars, histVars>>

\* The command loop at the granularity of the calls it makes on UserBlocker,
\* for a Client.stop that may run in between.

\* Commands whose handling starts or stops the suppressing listeners.
BlockerOps == Injections \cup {"block", "unblock"}

\* A command record written by the operator's endpoint arrives at peer p.
CommandArrives(p, op) ==
    /\ pc[p] = "Established"
    /\ ops < MaxOps
    /\ ops' = ops + 1
    /\ s2c' = [s2c EXCEPT ![p] = Append(@, CmdRecord(op, 0, ops + 1))]
    /\ UNCHANGED <<srvVars, regVars, chanVars, kicked_addresses, buttons,
                   fullscreen_address, fullscreen_widget, control_switch, block_states,
                   button_size, shutdown_event, afterQ, gui, peerVars, c2s, may_connect, tx, lk, rx, keys,
                   faults, now, histVars>>

\* The command loop reads and decrypts a block, unblock or input command.
RunRecv(p) ==
    /\ pc[p] = "Established"
    /\ input[p].pc = "idle"
    /\ psock[p] = "open"
    /\ s2c[p] # <<>>
    /\ Head(s2c[p]).op \in BlockerOps
    /\ LET r == Head(s2c[p]) IN
         /\ s2c' = [s2c EXCEPT ![p] = Tail(@)]
         /\ input' = [input EXCEPT ![p].cmd = r,
                                   ![p].pc = IF r.op \in Injections THEN "lift" ELSE r.op]
    /\ UNCHANGED <<srvVars, regVars, chanVars, guiVars, pc, psock, ppause, pblock, pimg,
                   preason, sent, share, cstop, c2s, may_connect, tx, lk, rx, keys, faults, now, histVars>>

\* `block`: the flag is set under block_event_lock ...
BlockSet(p) ==
    /\ input[p].pc = "block"
    /\ pblock' = [pblock EXCEPT ![p] = TRUE]
    /\ input' = [input EXCEPT ![p].pc = "start"]
    /\ UNCHANGED <<srvVars, regVars, chanVars, guiVars, pc, psock, ppause, pimg,
                   preason, sent, share, cstop, wireVars, histVars>>

\* ... then self.blocker.start_blocking().
BlockStart(p) ==
    /\ input[p].pc = "start"
    /\ input' = [input EXCEPT ![p].pc = "idle", ![p].listening = start_blocking]
    /\ UNCHANGED <<srvVars, regVars, chanVars, guiVars, pc, psock, ppause, pblock, pimg,
                   preason, sent, share, cstop, wireVars, histVars>>

\* `unblock`: the flag is cleared under block_event_lock ...
UnblockClear(p) ==
    /\ input[p].pc = "unblock"
    /\ pblock' = [pblock EXCEPT ![p] = FALSE]
    /\ input' = [input EXCEPT ![p].pc = "stop"]
    /\ UNCHANGED <<srvVars, regVars, chanVars, guiVars, pc, psock, ppause, pimg,
                   preason, sent, share, cstop, wireVars, histVars>>

\* ... then self.blocker.stop_blocking().
UnblockStop(p) ==
    /\ input[p].pc = "stop"
    /\ input' = [input EXCEPT ![p].pc = "idle", ![p].listening = stop_blocking]
    /\ UNCHANGED <<srvVars, regVars, chanVars, guiVars, pc, psock, ppause, pblock, pimg,
                   preason, sent, share, cstop, wireVars, histVars>>

\* handle_command: was_blocking is read and, if set, suppression is lifted.
InjLift(p) ==
    /\ input[p].pc = "lift"
    /\ input' = [input EXCEPT ![p].pc = "inject",
                              ![p].was_blocking = pblock[p],
                              ![p].listening = IF pblock[p] THEN stop_blocking ELSE @]
    /\ UNCHANGED <<srvVars, regVars, chanVars, guiVars, pc, psock, ppause, pblock, pimg,
                   preason, sent, share, cstop, wireVars, histVars>>

\* handle_command: the command is parsed and injected; if that raises, the
\* `except Exception` of handle_command logs it and the method returns.
InjDo(p) ==
    /\ input[p].pc = "inject"
    /\ input' = [input EXCEPT ![p].pc = IF Raises(input[p].cmd) THEN "idle" ELSE "restore"]
    /\ UNCHANGED <<srvVars, regVars, chanVars, guiVars, pc, psock, ppause, pblock, pimg,
                   preason, sent, share, cstop, wireVars, histVars>>

\* handle_command: `if was_blocking: self.user_blocker.start_blocking()`.
InjRestore(p) ==
    /\ input[p].pc = "restore"
    /\ input' = [input EXCEPT ![p].pc = "idle",
                              ![p].listening = IF input[p].was_blocking
                                               THEN start_blocking ELSE @]
    /\ UNCHANGED <<srvVars, regVars, chanVars, guiVars, pc, psock, ppause, pblock, pimg,
                   preason, sent, share, cstop, wireVars, histVars>>

\* The application calls Client.stop on a running client.
ExternalStop(p) ==
    /\ pc[p] \in {"Established", "finally", "stopped"}
    /\ cstop[p].call["ext"].pc = "idle"
    /\ StopCall(p, "ext", "stop requested")
    /\ UNCHANGED <<srvVars, regVars, chanVars, guiVars, pc, psock, ppause, pblock, input, pimg,
                   preason, sent, share, wireVars, histVars>>

\* `with self._lock:` is entered.
StopLock(p, c) ==
    /\ cstop[p].call[c].pc = "lock"
    /\ CanLock(p)
    /\ cstop' = [cstop EXCEPT ![p].lock = c,
                              ![p].call[c].pc = "test",
                              ![p].first = IF @ = "" THEN cstop[p].call[c].reason ELSE @]
    /\ UNCHANGED <<srvVars, regVars, chanVars, guiVars, pc, psock, ppause, pblock, input, pimg,
                   preason, sent, share, wireVars, histVars>>

\* `if self._disconnected: return` - the lock is released and the call
\* returns - else the flag is set.
StopTest(p, c) ==
    /\ cstop[p].call[c].pc = "test"
    /\ IF cstop[p].disconnected
       THEN /\ cstop' = [cstop EXCEPT ![p].lock = "free", ![p].call[c].pc = "returned"]
            /\ pc' = IF c = "run" THEN [pc EXCEPT ![p] = "stopped"] ELSE pc
       ELSE /\ cstop' = [cstop EXCEPT ![p].disconnected = TRUE, ![p].call[c].pc = "body"]
            /\ UNCHANGED pc
    /\ UNCHANGED <<srvVars, regVars, chanVars, guiVars, psock, ppause, pblock, input, pimg,
                   preason, sent, share, wireVars, histVars>>

\* The rest of Client.stop: the loop and the publisher are told to stop,
\* input suppression is released, the socket is closed, disconnect_callback
\* is called with this call's reason, and the lock is released.
StopBody(p, c) ==
    /\ cstop[p].call[c].pc = "body"
    /\ share' = [share EXCEPT ![p].stop = TRUE]
    /\ psock' = [psock EXCEPT ![p] = "closed"]
    /\ preason' = [preason EXCEPT ![p] = Append(@, cstop[p].call[c].reason)]
    /\ cstop' = [cstop EXCEPT ![p].lock = "free", ![p].call[c].pc = "returned",
                              ![p].bodies = @ + 1]
    /\ input' = [input EXCEPT ![p].listening = stop_blocking]
    /\ pc' = IF c = "run" THEN [pc EXCEPT ![p] = "stopped"] ELSE pc
    /\ UNCHANGED <<srvVars, regVars, chanVars, guiVars, ppause, pblock, pimg, sent,
                   wireVars, histVars>>

\* Fault injection: a publisher started before key_exchange has returned.
PublishFrameBeforeKeys(p) ==
    /\ pc[p] \in {"AwaitingOperatorKey", "AwaitingSessionKey", "Established"}
    /\ ~ppause[p]
    /\ sent[p] < MaxFrames
    /\ sent' = [sent EXCEPT ![p] = @ + 1]
    /\ c2s' = [c2s EXCEPT ![p] = Append(@, FrameRecord(sent[p] + 1, pimg[p]))]
    /\ wlog' = [wlog EXCEPT ![p] = Append(@, FrameRecord(sent[p] + 1, pimg[p]))]
    /\ UNCHANGED <<srvVars, regVars, chanVars, guiVars, pc, psock, ppause, pblock, input, pimg,
                   preason, share, cstop, s2c, may_connect, tx, lk, rx, keys, faults, now,
                   hs_done, hs_failed, terminal, nextId, rendered,
                   lastpop, drawn, ui_kicked, accept_raised>>

\* One cycle of ScreenShare.run that is not paused: a frame is captured at
\* the current size, compressed, encrypted and written as one frame record.
\* Fault injection: a publisher that gives up at the first failed cycle.
AfterFailureGiveUp(p) == "done"

\* `except Exception` in ScreenShare.run, and the `continue` after an empty
\* capture, compression or encryption result: the loop goes round.
AfterFailure(p) == "loop"

\* A cycle of ScreenShare.run in which the capture, the compression, the
\* encryption or the send fails: no frame is published, the publisher sleeps
\* and is where AfterFailure puts it.
PublishFails(p) ==
    /\ share[p].pc = "loop"
    /\ ~share[p].stop
    /\ ~ppause[p]
    /\ share[p].failed < MaxFails
    /\ share' = [share EXCEPT ![p].failed = @ + 1, ![p].at = sent[p],
                              ![p].pc = AfterFailure(p)]
    /\ UNCHANGED <<srvVars, regVars, chanVars, guiVars, pc, psock, ppause, pblock, input, pimg,
                   preason, sent, cstop, wireVars, histVars>>

\* `while not self.stop_event.is_set()` in ScreenShare.run ends the loop.
ShareExit(p) ==
    /\ share[p].pc = "loop"
    /\ share[p].stop
    /\ share' = [share EXCEPT ![p].pc = "done"]
    /\ UNCHANGED <<srvVars, regVars, chanVars, guiVars, pc, psock, ppause, pblock, input, pimg,
                   preason, sent, cstop, wireVars, histVars>>

PublishFrame(p) ==
    /\ pc[p] = "Established"
    /\ share[p].pc = "loop"
    /\ ~share[p].stop
    /\ ~ppause[p]
    /\ sent[p] < MaxFrames
    /\ sent' = [sent EXCEPT ![p] = @ + 1]
    /\ c2s' = [c2s EXCEPT ![p] = Append(@, FrameRecord(sent[p] + 1, pimg[p]))]
    /\ wlog' = [wlog EXCEPT ![p] = Append(@, FrameRecord(sent[p] + 1, pimg[p]))]
    /\ UNCHANGED <<srvVars, regVars, chanVars, guiVars, pc, psock, ppause, pblock, input, pimg,
                   preason, share, cstop, s2c, may_connect, tx, lk, rx, keys, faults, now,
                   hs_done, hs_failed, terminal, nextId, rendered,
                   lastpop, drawn, ui_kicked, accept_raised>>

\* ScreenShare.run step by step, next to the command loop's handling of
\* pause, unpause and resize.  share[p].lock is ScreenShare._lock ("free",
\* "run" while the publisher holds it, "update" while update_size holds it),
\* share[p].seen is what `self.pause_event.is_set()` returned at the start
\* of the cycle, share[p].width and share[p].height are the locals of run.

CycleOps == {"pause", "unpause", "resize"}

\* The sizes a resize command of this scenario carries.
ResizeSizes == {FullSize, organize_screens(2, FullSize)}

\* A pause, unpause or well-formed resize record arrives at peer p.
CycleCommandArrives(p, op, sz) ==
    /\ pc[p] = "Established"
    /\ ops < MaxOps
    /\ ops' = ops + 1
    /\ s2c' = [s2c EXCEPT ![p] = Append(@, CmdRecord(op, sz, ops + 1))]
    /\ UNCHANGED <<srvVars, regVars, chanVars, kicked_addresses, buttons,
                   fullscreen_address, fullscreen_widget, control_switch, block_states,
                   button_size, shutdown_event, afterQ, gui, peerVars, c2s, may_connect, tx, lk, rx, keys,
                   faults, now, histVars>>

\* The command loop reads and decrypts a pause, unpause or resize command.
CycleRecv(p) ==
    /\ pc[p] = "Established"
    /\ input[p].pc = "idle"
    /\ psock[p] = "open"
    /\ s2c[p] # <<>>
    /\ Head(s2c[p]).op \in CycleOps
    /\ s2c' = [s2c EXCEPT ![p] = Tail(@)]
    /\ input' = [input EXCEPT ![p].cmd = Head(s2c[p]), ![p].pc = Head(s2c[p]).op]
    /\ UNCHANGED <<srvVars, regVars, chanVars, guiVars, pc, psock, ppause, pblock, pimg,
                   preason, sent, share, cstop, c2s, may_connect, tx, lk, rx, keys, faults, now, histVars>>

\* `self.pause_event.set()` / `self.pause_event.clear()`.
PauseSetClear(p) ==
    /\ input[p].pc \in {"pause", "unpause"}
    /\ ppause' = [ppause EXCEPT ![p] = (input[p].pc = "pause")]
    /\ input' = [input EXCEPT ![p].pc = "idle"]
    /\ UNCHANGED <<srvVars, regVars, chanVars, guiVars, pc, psock, pblock, pimg,
                   preason, sent, share, cstop, wireVars, histVars>>

\* Fault injection: an update_size that does not take the lock.
UpdateSizeNoLock(p) ==
    /\ input[p].pc = "resize"
    /\ input' = [input EXCEPT ![p].pc = "update"]
    /\ UNCHANGED <<srvVars, regVars, chanVars, guiVars, pc, psock, ppause, pblock, pimg,
                   preason, sent, share, cstop, wireVars, histVars>>

\* update_size: `with self._lock:` is entered.
UpdateSizeLock(p) ==
    /\ input[p].pc = "resize"
    /\ share[p].lock = "free"
    /\ share' = [share EXCEPT ![p].lock = "update"]
    /\ input' = [input EXCEPT ![p].pc = "update"]
    /\ UNCHANGED <<srvVars, regVars, chanVars, guiVars, pc, psock, ppause, pblock, pimg,
                   preason, sent, cstop, wireVars, histVars>>

\* update_size: `self.img_size = new_size`, and the lock is released.
UpdateSizeWrite(p) ==
    /\ input[p].pc = "update"
    /\ pimg' = [pimg EXCEPT ![p] = input[p].cmd.sz]
    /\ share' = [share EXCEPT ![p].lock = "free"]
    /\ input' = [input EXCEPT ![p].pc = "idle"]
    /\ UNCHANGED <<srvVars, regVars, chanVars, guiVars, pc, psock, ppause, pblock,
                   preason, sent, cstop, wireVars, histVars>>

\* Fault injection: a cycle that goes on whatever the pause flag says.
ShareTestIgnoringPause(p) ==
    /\ pc[p] = "Established"
    /\ share[p].pc = "loop"
    /\ ~share[p].stop
    /\ share' = [share EXCEPT ![p].seen = ppause[p], ![p].pc = "lock"]
    /\ UNCHANGED <<srvVars, regVars, chanVars, guiVars, pc, psock, ppause, pblock, input, pimg,
                   preason, sent, cstop, wireVars, histVars>>

\* The start of a cycle: `if self.pause_event.is_set(): sleep; continue`.
ShareTest(p) ==
    /\ pc[p] = "Established"
    /\ share[p].pc = "loop"
    /\ ~share[p].stop
    /\ share' = [share EXCEPT ![p].seen = ppause[p],
                              ![p].pc = IF ppause[p] THEN "loop" ELSE "lock"]
    /\ UNCHANGED <<srvVars, regVars, chanVars, guiVars, pc, psock, ppause, pblock, input, pimg,
                   preason, sent, cstop, wireVars, histVars>>

\* `with self._lock:` is entered.
ShareLockSize(p) ==
    /\ share[p].pc = "lock"
    /\ share[p].lock = "free"
    /\ share' = [share EXCEPT ![p].lock = "run", ![p].pc = "read"]
    /\ UNCHANGED <<srvVars, regVars, chanVars, guiVars, pc, psock, ppause, pblock, input, pimg,
                   preason, sent, cstop, wireVars, histVars>>

\* `width, height = self.img_size`, and the lock is released.
ShareReadSize(p) ==
    /\ share[p].pc = "read"
    /\ share' = [share EXCEPT ![p].width = pimg[p], ![p].height = pimg[p],
                              ![p].lock = "free", ![p].pc = "capture"]
    /\ UNCHANGED <<srvVars, regVars, chanVars, guiVars, pc, psock, ppause, pblock, input, pimg,
                   preason, sent, cstop, wireVars, histVars>>

\* The size of an image captured at (width, height).
Captured(width, height) == IF width = height THEN width ELSE <<width, height>>

\* take_screenshot(width, height), compression, encryption and the three
\* sendall calls: the frame record is written, and the loop goes round.
ShareCaptureSend(p) ==
    /\ share[p].pc = "capture"
    /\ sent[p] < MaxFrames
    /\ sent' = [sent EXCEPT ![p] = @ + 1]
    /\ LET r == FrameRecord(sent[p] + 1, Captured(share[p].width, share[p].height)) IN
         /\ c2s' = [c2s EXCEPT ![p] = Append(@, r)]
         /\ wlog' = [wlog EXCEPT ![p] = Append(@, r)]
    /\ share' = [share EXCEPT ![p].pc = "loop"]
    /\ UNCHANGED <<srvVars, regVars, chanVars, guiVars, pc, psock, ppause, pblock, input, pimg,
                   preason, cstop, s2c, may_connect, tx, lk, rx, keys, faults, now,
                   hs_done, hs_failed, terminal, nextId, rendered,
                   lastpop, drawn, ui_kicked, accept_raised>>

\* The command loop's side of the scenario.
CycleLoop(p) == CycleRecv(p) \/ PauseSetClear(p) \/ UpdateSizeLock(p) \/ UpdateSizeWrite(p)

\* The publisher's side of the scenario.
Cycle(p) == ShareTest(p) \/ ShareLockSize(p) \/ ShareReadSize(p) \/ ShareCaptureSend(p)

\* The program at the other end of an established connection writes a frame
\* record with a zero length field (ScreenShare.run never does: it skips an
\* empty ciphertext).
PeerWritesEmptyFrame(p) ==
    /\ faults < MaxFaults
    /\ pc[p] = "Established"
    /\ psock[p] = "open"
    /\ faults' = faults + 1
    /\ c2s' = [c2s EXCEPT ![p] = Append(@, EmptyFrameRecord)]
    /\ wlog' = [wlog EXCEPT ![p] = Append(@, EmptyFrameRecord)]
    /\ UNCHANGED <<srvVars, regVars, chanVars, guiVars, peerVars, s2c, may_connect, tx, lk, rx, keys, now,
                   hs_done, hs_failed, terminal, nextId, rendered,
                   lastpop, drawn, ui_kicked, accept_raised>>

\* The program at the other end writes a frame record whose payload fails
\* decryption or decompression.
PeerWritesCorruptFrame(p) ==
    /\ faults < MaxFaults
    /\ pc[p] = "Established"
    /\ psock[p] = "open"
    /\ faults' = faults + 1
    /\ c2s' = [c2s EXCEPT ![p] = Append(@, CorruptFrameRecord)]
    /\ wlog' = [wlog EXCEPT ![p] = Append(@, CorruptFrameRecord)]
    /\ UNCHANGED <<srvVars, regVars, chanVars, guiVars, peerVars, s2c, may_connect, tx, lk, rx, keys, now,
                   hs_done, hs_failed, terminal, nextId, rendered,
                   lastpop, drawn, ui_kicked, accept_raised>>

\* The peer's process dies or its network drops: the connection is gone
\* without Client.stop having run.
PeerCrash(p) ==
    /\ faults < MaxFaults
    /\ psock[p] = "open"
    /\ psock' = [psock EXCEPT ![p] = "closed"]
    /\ pc' = [pc EXCEPT ![p] = "crashed"]
    /\ faults' = faults + 1
    /\ UNCHANGED <<srvVars, regVars, chanVars, guiVars, ppause, pblock, input, pimg, preason,
                   sent, share, cstop, s2c, c2s, may_connect, tx, lk, rx, keys, now, histVars>>

----------------------------------------------------------------------------
\* time.time() advances, by 0.4 s (a frame stamped just before the step is
\* still fresh after it) or by 0.6 s (every frame stamped before the step is
\* stale after it).
TickSteps == {max_frame_age - 1, max_frame_age + 1}

Tick ==
    /\ now < MaxTicks * (max_frame_age + 1)
    /\ \E d \in TickSteps :
         /\ now' = now + d
         /\ handler' = [p \in Addr |->
                          [handler[p] EXCEPT !.recent = @ /\ d < min_frame_interval]]
    /\ UNCHANGED <<srvVars, clients_dict, clients_lock, ssock, rsa_keys, chanVars, guiVars,
                   peerVars, s2c, c2s, may_connect, tx, lk, rx, keys, faults, histVars>>

----------------------------------------------------------------------------
\* recv_all(sock, num_bytes), one call: the remote side has written the
\* bytes of `sent`, of which `wire` are still unread, and either closes the
\* connection after them or keeps it open.

MAX_CHUNK_SIZE == 4096

Bytes == {0, 1}

\* The byte strings the remote side may have written: shorter than, as long
\* as, and longer than what a call asks for.
Streams == UNION {[1..k -> Bytes] : k \in 0..(MaxLen + 1)}

Min(a, b) == IF a < b THEN a ELSE b

NoRead == [state |-> "idle", n |-> 0, sent |-> <<>>, wire |-> <<>>, closes |-> FALSE,
           data |-> <<>>, packets |-> 0]

\* Fault injection: a read that always asks for a whole chunk.
WholeChunk(num_bytes, data) == MAX_CHUNK_SIZE

\* `min(MAX_CHUNK_SIZE, num_bytes - len(data))`
Want(num_bytes, data) == Min(MAX_CHUNK_SIZE, num_bytes - Len(data))

\* recv_all is called with num_bytes = n on a stream carrying w.
RecvAllCall ==
    /\ rx.state = "idle"
    /\ \E n \in 0..MaxLen, w \in Streams, closes \in BOOLEAN :
         rx' = [state |-> "loop", n |-> n, sent |-> w, wire |-> w, closes |-> closes,
                data |-> <<>>, packets |-> 0]
    /\ UNCHANGED <<srvVars, regVars, chanVars, guiVars, peerVars, s2c, c2s, may_connect, tx, lk, keys,
                   faults, now, histVars>>

\* sock.recv returns a packet: at least one byte, at most what was asked
\* for and what has arrived, however the network has split the stream.
RecvPacket ==
    /\ rx.state = "loop"
    /\ Len(rx.data) < rx.n
    /\ rx.wire # <<>>
    /\ \E k \in 1..Min(Want(rx.n, rx.data), Len(rx.wire)) :
         rx' = [rx EXCEPT !.data = @ \o SubSeq(rx.wire, 1, k),
                          !.wire = SubSeq(@, k + 1, Len(@)),
                          !.packets = @ + 1]
    /\ UNCHANGED <<srvVars, regVars, chanVars, guiVars, peerVars, s2c, c2s, may_connect, tx, lk, keys,
                   faults, now, histVars>>

\* sock.recv returns b'' (the remote side has closed and nothing is left):
\* ConnectionError is raised.
RecvEof ==
    /\ rx.state = "loop"
    /\ Len(rx.data) < rx.n
    /\ rx.wire = <<>>
    /\ rx.closes
    /\ rx' = [rx EXCEPT !.state = "raised"]
    /\ UNCHANGED <<srvVars, regVars, chanVars, guiVars, peerVars, s2c, c2s, may_connect, tx, lk, keys,
                   faults, now, histVars>>

\* `while len(data) < num_bytes` ends: data is returned.
RecvReturn ==
    /\ rx.state = "loop"
    /\ Len(rx.data) >= rx.n
    /\ rx' = [rx EXCEPT !.state = "returned"]
    /\ UNCHANGED <<srvVars, regVars, chanVars, guiVars, peerVars, s2c, c2s, may_connect, tx, lk, keys,
                   faults, now, histVars>>

----------------------------------------------------------------------------
\* Initial states.  Running(d, fresh, full, q, newcomers) is the endpoint in
\* the middle of a session: the peers of the sequence d have been admitted in
\* that order (handshake done, registered, ingestor blocked in its read);
\* those not in `fresh` have a thumbnail and have been resized to the
\* thumbnail size, those in `fresh` have only just been inserted (no frame
\* yet, native size, their initial resize still in q); `full` is the address
\* shown in full view (None: thumbnails are shown), q is what the Command
\* Channel still holds, every other queue has been drained, and the peers of
\* `newcomers` have yet to connect.  Constructed is the state after
\* construction.  Histories and counters start at
\* the initial state, except that the write log of an admitted peer holds
\* its handshake.

NoEntry == Entry(None, "", 0, 0)

\* No frame has been taken from the Frame Channel yet.
NoPop == [a |-> None, n |-> 0, age |-> 0, widget |-> FALSE, full |-> None, fwd |-> FALSE]

\* Client.stop before any call: the lock is free and _disconnected is False.
NotStopped ==
    [lock |-> "free", disconnected |-> FALSE, bodies |-> 0, first |-> "",
     call |-> [c \in Callers |-> [pc |-> "idle", reason |-> ""]]]

Elems(d) == {d[i] : i \in 1..Len(d)}

Handshake == <<KeyRecord("peerkey"), KeyRecord("pubkey"), KeyRecord("aeskey")>>

Running(d, fresh, full, q, newcomers) ==
    /\ stop_event = FALSE
    /\ listener = IF d = <<>> THEN "new" ELSE "listening"
    /\ backlog = <<>>
    /\ srv = [pc |-> IF d = <<>> THEN "init" ELSE "accept", addr |-> None, sock |-> None,
              reason |-> "session closed"]
    /\ ext_stop = "idle"
    /\ close_calls = <<>>
    /\ clients_dict = d
    /\ clients_lock = "free"
    /\ handler = [p \in Addr |-> [NewHandler EXCEPT
                                     !.pc = IF p \in Elems(d) THEN "read" ELSE "none"]]
    /\ ssock = [p \in Addr |-> IF p \in Elems(d) THEN "open" ELSE "none"]
    /\ rsa_keys = Elems(d)
    /\ pause_event = (full # None)
    /\ command_queue = q
    /\ frame_queue = <<>>
    /\ cc = [pc |-> IF d = <<>> THEN "new" ELSE "get", stop |-> FALSE,
             client_address |-> None, cmd |-> NoEntry,
             addr |-> None, targets |-> <<>>, snap |-> <<>>, failed |-> {}]
    /\ fc = [pc |-> IF d = <<>> THEN "new" ELSE "get", stop |-> FALSE]
    /\ kicked_addresses = {}
    /\ buttons = Elems(d) \ fresh
    /\ fullscreen_address = full
    /\ fullscreen_widget = (full # None)
    /\ control_switch = FALSE
    /\ block_states = {}
    /\ button_size = organize_screens(Cardinality(Elems(d) \ fresh), FullSize)
    /\ shutdown_event = FALSE
    /\ afterQ = <<>>
    /\ gui = [pc |-> "idle", f |-> "", target |-> None, due |-> None, temp_list |-> <<>>]
    /\ ops = 0
    /\ pc = [p \in Addr |-> IF p \in Elems(d) THEN "Established" ELSE "new"]
    /\ psock = [p \in Addr |-> IF p \in Elems(d) THEN "open" ELSE "none"]
    /\ ppause = [p \in Addr |-> p \in Elems(d) /\ full # None /\ p # full]
    /\ pblock = [p \in Addr |-> FALSE]
    /\ input = [p \in Addr |-> Handling("idle", NoCmd, FALSE, FALSE)]
    /\ pimg = [p \in Addr |-> IF p \notin Elems(d) \ fresh THEN NativeSize
                              ELSE IF p = full THEN FullSize
                              ELSE organize_screens(Cardinality(Elems(d) \ fresh), FullSize)]
    /\ preason = [p \in Addr |-> <<>>]
    /\ sent = [p \in Addr |-> 0]
    /\ share = [p \in Addr |-> [pc |-> IF p \in Elems(d) THEN "loop" ELSE "none",
                                 stop |-> FALSE, failed |-> 0, at |-> 0,
                                 lock |-> "free", seen |-> FALSE,
                                 width |-> NativeSize, height |-> NativeSize]]
    /\ cstop = [p \in Addr |-> NotStopped]
    /\ s2c = [p \in Addr |-> <<>>]
    /\ c2s = [p \in Addr |-> <<>>]
    /\ may_connect = newcomers
    /\ tx = [wire |-> [p \in Addr |-> <<>>], srv |-> 0, cc |-> 0]
    /\ lk = [owner |-> [l \in Locks |-> "free"], prog |-> [w \in Workers |-> <<>>]]
    /\ rx = NoRead
    /\ keys = [aes_key |-> generate_aes_key,
               wire |-> [p \in Addr |-> NoCipher],
               peer |-> [p \in Addr |-> IF p \in Elems(d) THEN generate_aes_key ELSE NoKey],
               entry |-> [p \in Addr |-> IF p \in Elems(d) THEN generate_aes_key ELSE NoKey],
               used |-> [p \in Addr |-> {}]]
    /\ faults = 0
    /\ now = 0
    /\ wlog = [p \in Addr |-> IF p \in Elems(d) THEN Handshake ELSE <<>>]
    /\ hs_done = Elems(d)
    /\ hs_failed = {}
    /\ terminal = {}
    /\ nextId = Len(q)
    /\ rendered = [p \in Addr |-> <<>>]
    /\ lastpop = NoPop
    /\ drawn = [p \in Addr |-> {}]
    /\ ui_kicked = {}
    /\ accept_raised = FALSE

\* The state after construction of the endpoint, the GUI and the peers.
Constructed(newcomers) == Running(<<>>, {}, None, <<>>, newcomers)

----------------------------------------------------------------------------
\* The threads of the program, as groups of actions.

\* Server.run with key_exchange and its finally block.
Accept ==
    \/ SrvStart \/ SrvLoop \/ SrvAccept \/ SrvAcceptError
    \/ HsRecvKey \/ HsSendPub \/ HsSendAes
    \/ SrvRejected \/ SrvEnqueueResize \/ SrvPause \/ SrvInsert
    \/ SrvFinallySignal \/ SrvFinallySweep

\* Server.stop called by the application.
Shutdown == ExtStopBegin \/ ExtStopSweep

\* CommandConsumer.run while it is not told to stop, and with its exit.
DispatchLoop == CcGet \/ CcLock \/ CcSend

Dispatch == DispatchLoop \/ CcExit

\* ClientHandler.run of every peer; IngestErrors is its except block alone.
IngestErrors == \E p \in Addr : IngError(p)

\* The loop of ClientHandler.run while nothing goes wrong.
IngestLoop == \E p \in Addr : IngCheck(p) \/ IngRead(p)

Ingest == IngestErrors \/ IngestLoop

\* ServerGui.cleanup / kick callbacks on the Tk thread.
GuiCleanups == GuiCleanup \/ GuiDrain \/ GuiCleanupEnd

\* The operator at the GUI: opening and leaving the full view, and the
\* buttons of the full view.
UiViews == UiExitFullscreen \/ \E p \in Addr : UiToggleFullscreen(p)

UiFullView ==
    \/ UiExitFullscreen \/ UiKick \/ UiControl
    \/ \E op \in {"block", "unblock", "button"} : UiCommand(op)

Ui == UiViews \/ UiFullView

\* The command loop of Client.run; PeerFault is the peer dying.
Commands == \E p \in Addr : PeerCommand(p)

PeerSession == Commands \/ \E p \in Addr : PeerEof(p)

PeerFault == \E p \in Addr : PeerCrash(p)

\* Client.run from connect on, and ScreenShare.run.
PeerAdmission == \E p \in Addr : PeerConnect(p) \/ PeerSendKey(p) \/ PeerRecvKey(p)

Publish == \E p \in Addr : PublishFrame(p)

\* ScreenShare.run with failing cycles and its exit.
Publisher == \E p \in Addr : PublishFrame(p) \/ PublishFails(p) \/ ShareExit(p)

\* Client.run's command loop with Client.stop called from its finally block
\* and from the application.
RunLoop == \E p \in Addr : RunCommand(p) \/ RunError(p)

\* The command loop on block, unblock and input commands, call by call.
InputLoop ==
    \E p \in Addr :
        \/ RunRecv(p) \/ BlockSet(p) \/ BlockStart(p) \/ UnblockClear(p) \/ UnblockStop(p)
        \/ InjLift(p) \/ InjDo(p) \/ InjRestore(p)

Stops ==
    \E p \in Addr :
        \/ ExternalStop(p)
        \/ \E c \in Callers : StopLock(p, c) \/ StopTest(p, c) \/ StopBody(p, c)

\* ScreenShare.run of the peers that connect during the run.
Newcomers == {"A"}

PublishNew == \E p \in Newcomers : PublishFrame(p)

----------------------------------------------------------------------------
\* Admission: the accept loop, the dispatcher, the ingestors and the peers,
\* with the application free to call Server.stop at any time.  One peer (A)
\* connects, either to a freshly constructed endpoint or to one that already
\* shows peer C in full view (so that the pause flag is set); the frames of
\* C are left to SpecFrames.
Init == Constructed(Newcomers) \/ Running(<<"C">>, {}, "C", <<>>, Newcomers)

Next ==
    \/ Accept \/ Shutdown \/ Dispatch \/ FcExit \/ Ingest
    \/ PeerAdmission \/ PeerSession \/ PublishNew \/ PeerFault

Spec == Init /\ [][Next]_vars

\* The listener and the handshake: two peers (A, B) connect one after the
\* other, to a freshly constructed endpoint or to one that shows C in full
\* view; bind may fail, accept() may raise once on the open listener, a
\* handshake may time out or fail, and nobody calls Server.stop from outside.
InitListener ==
    \/ Constructed({"A", "B"})
    \/ Running(<<"C">>, {}, "C", <<>>, {"A", "B"})

NextListener ==
    \/ SrvStart \/ SrvLoop \/ SrvAccept \/ SrvAcceptRaises
    \/ HsRecvKey \/ HsSendPub \/ HsSendAes
    \/ SrvRejected \/ SrvEnqueueResize \/ SrvPause \/ SrvInsert
    \/ SrvFinallySignal \/ SrvFinallySweep
    \/ PeerAdmission \/ DispatchLoop \/ Commands \/ PeerFault

SpecListener == InitListener /\ [][NextListener]_vars

\* The registry: as SpecListener, with the application free to call
\* Server.stop, so that inserts, the dispatcher's lookups and removals and
\* the shutdown sweep compete for the registry lock.
NextRegistry == NextListener \/ Shutdown \/ SrvAcceptError \/ CcExit

SpecRegistry == InitListener /\ [][NextRegistry]_vars

\* Pause and admission: C is registered and in full view (the pause flag is
\* set); A connects while the operator leaves and opens the full view.
\* Nothing fails except a handshake that times out.
InitPause == Running(<<"C">>, {}, "C", <<>>, {"A"})

NextPause ==
    \/ SrvLoop \/ SrvAccept \/ HsRecvKey \/ HsSendPub \/ HsSendAes
    \/ SrvRejected \/ SrvEnqueueResize \/ SrvPause \/ SrvInsert
    \/ PeerAdmission \/ DispatchLoop \/ Commands \/ UiViews

SpecPause == InitPause /\ [][NextPause]_vars

\* Broadcasts: the three peers' thumbnails are shown and the operator opens
\* and leaves full views, which puts pause and unpause.
InitBroadcast == Running(<<"A", "B", "C">>, {}, None, <<>>, {})

NextBroadcast ==
    \/ UiViews \/ DispatchLoop \/ GuiCleanups \/ IngestErrors \/ Commands \/ PeerFault

SpecBroadcast == InitBroadcast /\ [][NextBroadcast]_vars

\* Targeted commands: A is in full view and the operator uses the buttons
\* of the full view (kick, block, unblock, control, clicks, exit).
InitTargeted == Running(<<"A", "B", "C">>, {}, "A", <<>>, {})

NextTargeted ==
    \/ UiFullView \/ DispatchLoop \/ GuiCleanups \/ IngestErrors \/ Commands \/ PeerFault

SpecTargeted == InitTargeted /\ [][NextTargeted]_vars

\* Dispatch: three admitted peers, the operator at the GUI, the dispatcher,
\* the GUI's cleanups; peers may die.  No frames are published.  The
\* thumbnails are shown, or A is in full view, or C has only just been
\* inserted.
InitDispatch ==
    \/ InitBroadcast
    \/ InitTargeted
    \/ Running(<<"A", "B", "C">>, {"C"}, None,
               <<Entry("C", "resize", organize_screens(Cardinality({"A", "B"}), FullSize), 1)>>,
               {})

NextDispatch ==
    \/ Ui \/ DispatchLoop \/ GuiCleanups \/ IngestErrors \/ Commands \/ PeerFault

SpecDispatch == InitDispatch /\ [][NextDispatch]_vars

\* Kick, end to end: as SpecDispatch without faults; the dispatcher thread,
\* the Tk main loop, the ingestor threads and the peers' command loops are
\* threads the scheduler keeps running.
NextKick == Ui \/ DispatchLoop \/ GuiCleanups \/ IngestErrors \/ Commands

SpecKick ==
    /\ InitDispatch
    /\ [][NextKick]_vars
    /\ WF_vars(DispatchLoop)
    /\ WF_vars(GuiCleanups)
    /\ WF_vars(IngestErrors)
    /\ \A p \in Addr : WF_vars(PeerCommand(p))

\* Frames: two admitted peers publish; the ingestors, the frame consumer, the
\* Tk thread and the dispatcher run; a peer may die, which makes its ingestor
\* schedule the cleanup that drains and refills the Frame Channel.
InitFrames == Running(<<"A", "B">>, {}, None, <<>>, {})

NextFrames ==
    \/ Publish \/ Ingest \/ FcPop \/ GuiCleanups \/ GuiRefill \/ GuiUpdate
    \/ DispatchLoop \/ Commands \/ PeerFault \/ Tick

SpecFrames == InitFrames /\ [][NextFrames]_vars

\* Staleness: two admitted peers publish while time passes; the ingestors,
\* the frame consumer and the Tk thread run.
NextStale == Publish \/ IngestLoop \/ FcPop \/ GuiUpdate \/ Tick

SpecStale == InitFrames /\ [][NextStale]_vars

\* Views: two admitted peers; the operator opens and leaves full views while
\* frames of A are on their way (the frames of B are left out); the
\* ingestors, the frame consumer, the Tk thread, the dispatcher and the
\* peers' command loops run.
NextViews ==
    \/ PublishFrame("A") \/ IngestLoop \/ FcPop \/ GuiUpdate \/ UiViews
    \/ DispatchLoop \/ Commands

SpecViews == InitFrames /\ [][NextViews]_vars

\* Kicked: A is in full view and publishes (B is paused until the full view
\* is left); the operator kicks A while its frames are on the wire, on the
\* Frame Channel or scheduled on the Tk thread; the ingestors, the frame
\* consumer, the Tk thread, the dispatcher and the peers' command loops run.
InitKicked == Running(<<"A", "B">>, {}, "A", <<>>, {})

NextKicked ==
    \/ Publish \/ Ingest \/ FcPop \/ GuiUpdate \/ UiKick
    \/ GuiCleanups \/ GuiRefill \/ DispatchLoop \/ Commands

SpecKicked == InitKicked /\ [][NextKicked]_vars

\* Peer-side stop: A is in full view; the operator may kick it, so that its
\* command loop leaves through `kick`, while the application calls
\* Client.stop on either peer at any time.
NextStop ==
    \/ UiKick \/ GuiCleanups \/ DispatchLoop \/ IngestErrors \/ RunLoop \/ Stops

SpecStop == InitKicked /\ [][NextStop]_vars

\* The publisher: one admitted peer publishes thumbnails, cycles may fail,
\* and the application may stop the peer; the operator reads what arrives.
InitPublisher == Running(<<"A">>, {}, None, <<>>, {})

NextPublisher ==
    \/ Publisher \/ Ingest \/ (\E p \in Addr : RunError(p)) \/ Stops

SpecPublisher == InitPublisher /\ [][NextPublisher]_vars

\* Two registered peers publish, either may write a zero-length frame
\* record, and the ingestors and the GUI's cleanup run.
NextEmpty ==
    \/ (\E p \in Addr : PublishFrame(p))
    \/ (\E p \in Addr : PeerWritesEmptyFrame(p))
    \/ Ingest \/ GuiCleanups

SpecEmpty == InitFrames /\ [][NextEmpty]_vars

\* Two registered peers publish; a peer may die or write a record that is
\* empty or corrupt, the endpoint may be stopped and the window closed,
\* while the ingestors and the GUI's callbacks run.
NextErrors ==
    \/ (\E p \in Addr : PublishFrame(p))
    \/ (\E p \in Addr : PeerWritesEmptyFrame(p) \/ PeerWritesCorruptFrame(p))
    \/ PeerFault \/ Ingest \/ GuiCleanups \/ Shutdown \/ OnClose \/ GuiDestroy

SpecErrors == InitFrames /\ [][NextErrors]_vars

\* The dispatcher on its own: the Command Channel holds one or two entries
\* (a resize for everyone, for a registered or for an unregistered peer; a
\* click or a kick for a registered or an unregistered peer; a pause), two
\* peers are registered and either may die.
EntryChoices ==
    {Entry(t, "resize", FullSize, 0) : t \in {None, "A", "C"}}
        \cup {Entry(t, op, 0, 0) : t \in {"A", "C"}, op \in {"button", "kick"}}
        \cup {Entry("A", "pause", 0, 0)}

\* The entries es in the order of their puts.
Numbered(es) == [i \in 1..Len(es) |-> [es[i] EXCEPT !.id = i]]

InitEntries ==
    \E es \in UNION {[1..k -> EntryChoices] : k \in 1..MaxOps} :
        Running(<<"A", "B">>, {}, None, Numbered(es), {})

NextEntries == CcGet \/ CcLock \/ CcSend \/ (\E p \in Addr : PeerCrash(p))

SpecEntries == InitEntries /\ [][NextEntries]_vars

\* Admission: C is registered and A connects; nothing fails.  The accept
\* loop, the dispatcher and the peers are threads the scheduler keeps
\* running, and the initial resize is the only resize there is.
AdmissionSteps ==
    \/ SrvLoop \/ SrvAccept \/ HsRecvKey \/ HsSendPub \/ HsSendAes
    \/ SrvRejected \/ SrvEnqueueResize \/ SrvPause \/ SrvInsert

NextAdmission == AdmissionSteps \/ PeerAdmission \/ DispatchLoop \/ Commands

SpecAdmission ==
    /\ (InitPause \/ Running(<<"C">>, {}, None, <<>>, {"A", "B"}))
    /\ [][NextAdmission]_vars
    /\ WF_vars(AdmissionSteps)
    /\ WF_vars(DispatchLoop)
    /\ \A p \in Addr : WF_vars(PeerConnect(p) \/ PeerSendKey(p) \/ PeerRecvKey(p))
    /\ \A p \in Addr : WF_vars(PeerCommand(p))

\* Field by field: C is registered and in full view, A connects, the
\* operator leaves and opens the full view and a peer may die, while the
\* accept loop and the dispatcher make their send() calls one at a time.
NextFields == NextAdmission \/ UiViews \/ PeerFault \/ SrvPauseField \/ CcSendField

SpecFields == InitPause /\ [][NextFields]_vars

\* Stopped ingestors: A is in full view and both peers publish; the
\* operator may kick A, a peer may die (so that a send to it fails) and the
\* endpoint may be stopped, each of which sets an ingestor's stop signal.
NextStopped ==
    \/ Publish \/ Ingest \/ UiKick \/ GuiCleanups \/ DispatchLoop \/ Commands
    \/ PeerFault \/ Shutdown

SpecStopped == InitKicked /\ [][NextStopped]_vars

\* Locking: every worker goes through its operations, in any interleaving.
NextLocks == \E w \in Workers : LockBegin(w) \/ LockAcquire(w) \/ LockRelease(w)

SpecLocks == InitFrames /\ [][NextLocks]_vars

\* Command texts: two established peers receive well-formed commands,
\* malformed resizes and a text outside the known set, in any order.
TextChoices == {"block", "unblock", "pause", "unpause", "resize"}
                   \cup MalformedResizes \cup UnknownCommands

NextTexts ==
    \/ (\E p \in {"A", "B"} : \E op \in TextChoices : TextArrives(p, op))
    \/ Commands

SpecTexts == InitFrames /\ [][NextTexts]_vars

\* Pacing: two registered peers publish while time passes and their
\* ingestors read.
NextPacing == (\E p \in Addr : PublishFrame(p) \/ IngCheck(p) \/ IngRead(p)) \/ Tick

SpecPacing == InitFrames /\ [][NextPacing]_vars

\* One established peer's publisher, step by step, while pause, unpause and
\* resize commands arrive and are handled by its command loop.
NextCycle ==
    \/ (\E op \in {"pause", "unpause"} : CycleCommandArrives("A", op, 0))
    \/ (\E sz \in ResizeSizes : CycleCommandArrives("A", "resize", sz))
    \/ (\E p \in Addr : CycleLoop(p))
    \/ (\E p \in Addr : Cycle(p))

SpecCycle == InitPublisher /\ [][NextCycle]_vars

\* recv_all alone, on every stream and every way of splitting it.
NextRecv == RecvAllCall \/ RecvPacket \/ RecvEof \/ RecvReturn

SpecRecv == InitPublisher /\ [][NextRecv]_vars

\* Input suppression on the peer: one established peer receives block,
\* unblock and input commands, well-formed or not, and the application may
\* call Client.stop at any time.
NextInput ==
    \/ (\E op \in BlockerOps : CommandArrives("A", op))
    \/ InputLoop \/ (\E p \in Addr : RunError(p)) \/ Stops

SpecInput == InitPublisher /\ [][NextInput]_vars

\* Shutdown: one admitted peer publishes; the application may call
\* Server.stop and Client.stop at any time; every worker of both sides runs.
NextShutdown ==
    \/ ExtStopBegin \/ ExtStopSweep
    \/ SrvLoop \/ SrvAcceptError \/ SrvRejected \/ SrvFinallySignal \/ SrvFinallySweep
    \/ CcExit \/ FcPop \/ FcExit \/ GuiUpdate
    \/ Ingest \/ (\E p \in Addr : PublishFrame(p) \/ ShareExit(p) \/ RunError(p)) \/ Stops

\* A thread that can take a step of its own eventually takes it, and the end
\* of a stream reaches a blocked reader.
FairSteps ==
    /\ WF_vars(ExtStopSweep)
    /\ WF_vars(SrvLoop \/ SrvRejected \/ SrvFinallySignal \/ SrvFinallySweep)
    /\ WF_vars(CcExit)
    /\ WF_vars(FcPop \/ FcExit)
    /\ WF_vars(GuiUpdate)
    /\ \A p \in Addr :
         /\ WF_vars(IngCheck(p) \/ IngRead(p))
         /\ WF_vars(IngError(p) /\ c2s[p] = <<>> /\ psock[p] # "open")
         /\ WF_vars(RunError(p) /\ ssock[p] = "closed")
         /\ WF_vars(ShareExit(p))
         /\ WF_vars(\E c \in Callers : StopLock(p, c) \/ StopTest(p, c) \/ StopBody(p, c))

\* No fairness is stated for SrvAcceptError, nor for IngError and RunError
\* when the socket was closed by another thread of the same process: none of
\* these sockets has a timeout (accept() has none, and key_exchange ends with
\* settimeout(None)), and whether close() interrupts a call that is already
\* blocked is left to the platform.
SpecShutdown == InitPublisher /\ [][NextShutdown]_vars /\ FairSteps

----------------------------------------------------------------------------
\* Properties of admission (checked under Spec).

\* C1: in every reachable state an identity has a registry entry if and only
\* if its handshake has completed (and Server.run has got as far as the
\* insertion) and no terminal event - a kick, an ingestor error, a failed
\* command send, the endpoint's shutdown - has been processed for it.
C1_EntryIffHandshakeAndNoTerminal ==
    \A p \in Addr :
        InSeq(p, clients_dict) <=>
            /\ p \in hs_done
            /\ ~(srv.addr = p /\ srv.pc \in {"returned", "pause", "insert"})
            /\ p \notin terminal

\* C2: an identity is in the registry, or has an ingestor, only if the
\* operator-side handshake of its connection went through completely (the
\* peer's key read, the operator's key and the encrypted symmetric key
\* written); an identity whose handshake was aborted has neither.
C2_InsertedOnlyAfterHandshake ==
    \A p \in Addr :
        /\ (InSeq(p, clients_dict) \/ handler[p].pc # "none") =>
               /\ p \in hs_done
               /\ p \notin hs_failed
               /\ Len(wlog[p]) >= Len(Handshake)
               /\ SubSeq(wlog[p], 1, Len(Handshake)) = Handshake
        /\ p \in hs_failed => ~InSeq(p, clients_dict) /\ handler[p].pc = "none"

\* A newcomer has been inserted, with its ingestor, after its handshake.
C2_Witness ==
    \E p \in Newcomers :
        /\ InSeq(p, clients_dict)
        /\ handler[p].pc # "none"
        /\ p \in hs_done
        /\ close_calls = <<>>

\* C3: on every connection the records written are, in order, the peer's
\* public key, the operator's public key, the encrypted symmetric key, and
\* only then frame and command records; the peer waits for the symmetric key
\* only after the operator's key was written and is Established only after
\* both were.
C3_HandshakeOrder ==
    \A p \in Addr :
        /\ \A i \in 1..Len(wlog[p]) :
               IF i <= Len(Handshake)
               THEN wlog[p][i] = Handshake[i]
               ELSE wlog[p][i].kind \in {"frame", "cmd"}
        /\ pc[p] = "AwaitingSessionKey" => Len(wlog[p]) >= Len(Handshake) - 1
        /\ pc[p] = "Established" =>
               /\ Len(wlog[p]) >= Len(Handshake)
               /\ \A i \in 1..Len(s2c[p]) : s2c[p][i].kind = "cmd"

\* A newcomer is Established and both a frame record and a command record
\* have been written on its connection.
C3_Witness ==
    \E p \in Newcomers :
        /\ pc[p] = "Established"
        /\ \E i, j \in 1..Len(wlog[p]) :
               wlog[p][i].kind = "frame" /\ wlog[p][j].kind = "cmd"

----------------------------------------------------------------------------
\* Properties of the dispatcher (checked under SpecBroadcast, SpecTargeted and
\* SpecDispatch).

C5_CleanupForTheFailedPeer ==
    /\ (cc.cmd.op \in Broadcast \cup {"resize"}) =>
           \A p \in cc.failed : handler[p].stop /\ ~InSeq(p, clients_dict)
    /\ (gui.pc # "idle" /\ gui.f = "cleanup_addr") => gui.target = gui.due

\* C6: a peer whose targeted command (block, unblock, kick, input) could not
\* be sent has its ingestor told to stop and is out of the registry, and the
\* kick scheduled for it acts on that identity and no other.
C6_TargetedFailureAffectsOnlyTarget ==
    /\ (cc.cmd.op \in {"block", "unblock", "kick", "button"}) =>
           \A p \in cc.failed : handler[p].stop /\ ~InSeq(p, clients_dict)
    /\ (gui.pc # "idle" /\ gui.f = "kick_client_address") => gui.target = gui.due

\* C7: once a `kick` entry for P has been processed, P is not in the
\* registry, and if P was registered its ingestor has been told to stop.
C7_KickRemovesEntry ==
    (cc.pc = "get" /\ cc.cmd.op = "kick") =>
        /\ ~InSeq(cc.cmd.target, clients_dict)
        /\ InSeq(cc.cmd.target, cc.snap) => handler[cc.cmd.target].stop

\* A kick for a registered peer has been processed and its send went through.
C7_Witness ==
    /\ cc.pc = "get"
    /\ cc.cmd.op = "kick"
    /\ InSeq(cc.cmd.target, cc.snap)
    /\ cc.failed = {}
    /\ \E i \in 1..Len(wlog[cc.cmd.target]) :
           wlog[cc.cmd.target][i] = CmdRecord("kick", 0, cc.cmd.id)

\* C8: if a `kick` for a registered, connected peer P is on the Command
\* Channel, then eventually P's command loop has exited, disconnect_callback
\* has been called with "kicked from session" and P is not in the registry.
C8_KickEventuallyDisconnects ==
    \A p \in Addr :
        (/\ \E i \in 1..Len(command_queue) :
                command_queue[i].target = p /\ command_queue[i].op = "kick"
         /\ InSeq(p, clients_dict)
         /\ pc[p] = "Established")
        ~> (/\ pc[p] = "stopped"
            /\ preason[p] = <<"kicked from session">>
            /\ ~InSeq(p, clients_dict))

\* A peer has been kicked: its loop has exited with the reason and it is out
\* of the registry.
C8_Witness ==
    \E p \in Addr :
        /\ pc[p] = "stopped"
        /\ preason[p] = <<"kicked from session">>
        /\ ~InSeq(p, clients_dict)
        /\ p \in kicked_addresses

\* C9: the frames of each peer reach update_screen in the order in which the
\* peer's ingestor read them.
C9_FramesRenderedInOrder ==
    \A p \in Addr :
        \A i, j \in 1..Len(rendered[p]) : i < j => rendered[p][i] < rendered[p][j]

\* C10: the command records written to one peer are in the order in which
\* their entries were put on the Command Channel.
C10_CommandsInPutOrder ==
    \A p \in Addr :
        \A i, j \in 1..Len(wlog[p]) :
            (i < j /\ wlog[p][i].kind = "cmd" /\ wlog[p][j].kind = "cmd")
                => wlog[p][i].id < wlog[p][j].id

\* Two commands put one after the other have both been written to one peer.
C10_Witness ==
    \E p \in Addr :
        \E i, j \in 1..Len(wlog[p]) :
            /\ i < j
            /\ wlog[p][i].kind = "cmd"
            /\ wlog[p][j].kind = "cmd"
            /\ wlog[p][j].id = wlog[p][i].id + 1

----------------------------------------------------------------------------
\* Properties of the frame consumer and the renderer (checked under
\* SpecStale, SpecViews and SpecKicked).

\* C11: a frame the Frame Consumer takes is handed to update_screen only if
\* its age is at most 0.5 s, and one older than that is dropped and never
\* drawn; a frame taken 0.4 s after its timestamp is handed on (the full-view
\* filter permitting), one taken 0.6 s after it is dropped.
C11_StaleFramesDropped ==
    lastpop.a # None =>
        /\ lastpop.fwd => lastpop.age <= max_frame_age
        /\ lastpop.age > max_frame_age =>
               /\ ~lastpop.fwd
               /\ lastpop.n \notin drawn[lastpop.a]
        /\ (lastpop.age = max_frame_age - 1 /\ (~lastpop.widget \/ lastpop.full = lastpop.a))
               => lastpop.fwd
        /\ lastpop.age = max_frame_age + 1 => ~lastpop.fwd

\* The second frame of a peer was taken 0.6 s after its timestamp and
\* dropped, after the first had been handed on.
C11_Witness ==
    /\ lastpop.a # None
    /\ lastpop.n = 2
    /\ lastpop.age = max_frame_age + 1
    /\ ~lastpop.fwd
    /\ rendered[lastpop.a] = <<1>>

\* C12: a frame the Frame Consumer takes is handed to update_screen only if
\* no full view is shown or the full view shows the frame's peer; a fresh
\* frame of another peer taken while a full view is shown is discarded and
\* never drawn.
C12_OnlyTheFullViewPeerIsRendered ==
    lastpop.a # None =>
        /\ lastpop.fwd => (~lastpop.widget \/ lastpop.full = lastpop.a)
        /\ (lastpop.widget /\ lastpop.full # lastpop.a) =>
               /\ ~lastpop.fwd
               /\ lastpop.n \notin drawn[lastpop.a]
               /\ \A i \in 1..Len(afterQ) :
                      ~(afterQ[i].a = lastpop.a /\ afterQ[i].n = lastpop.n
                        /\ afterQ[i].f \in {"update_full", "update_preview"})

\* A fresh frame of one peer was taken while the full view showed another
\* peer, and was discarded.
C12_Witness ==
    /\ lastpop.a # None
    /\ lastpop.widget
    /\ lastpop.full \notin {None, lastpop.a}
    /\ lastpop.age <= max_frame_age
    /\ ~lastpop.fwd

\* C13: while an identity is in the kicked set - from the operator's kick
\* until a fresh handshake re-admits it - no step draws a frame of it: no
\* thumbnail is created for it and neither its thumbnail nor the full view
\* is updated with one of its frames.
C13_KickedPeerNotRendered ==
    [][\A p \in Addr :
          p \in kicked_addresses =>
              /\ drawn'[p] = drawn[p]
              /\ p \in buttons' => p \in buttons]_vars

\* The operator has kicked a peer; a frame of it that the Frame Consumer
\* handed to update_screen has been discarded without being drawn.
C13_Witness ==
    \E p \in ui_kicked :
        /\ p \in kicked_addresses
        /\ lastpop.a = p
        /\ lastpop.fwd
        /\ lastpop.n \notin drawn[p]
        /\ \A i \in 1..Len(afterQ) : afterQ[i].a # p

----------------------------------------------------------------------------
\* Properties of the peer's stop (checked under SpecStop).

\* C14: however the calls of Client.stop from Client.run's exit path and from
\* the application interleave, the teardown runs at most once, and once a
\* call has returned disconnect_callback has been called exactly once, with
\* the reason of the call that was first to take the stop lock.
C14_TeardownOnce ==
    \A p \in Addr :
        /\ cstop[p].bodies <= 1
        /\ Len(preason[p]) = cstop[p].bodies
        /\ preason[p] # <<>> => preason[p] = <<cstop[p].first>>
        /\ (\E c \in Callers : cstop[p].call[c].pc = "returned") => Len(preason[p]) = 1

\* Both callers have been through Client.stop for a kicked peer: the
\* application's call took the lock first and its reason was reported, the
\* command loop's call found the flag set.
C14_Witness ==
    \E p \in Addr :
        /\ cstop[p].call["run"] = [pc |-> "returned", reason |-> "kicked from session"]
        /\ cstop[p].call["ext"].pc = "returned"
        /\ cstop[p].first = "stop requested"
        /\ preason[p] = <<"stop requested">>

----------------------------------------------------------------------------
\* Properties of the operator's shutdown (checked under Spec).

\* C15: whatever shutdown triggers occur (Server.stop called from outside,
\* the accept loop's finally block, a crash), close_callback is called once
\* per Server instance: never twice, and once when Server.run has ended.
C15_CloseCallbackOnce ==
    /\ Len(close_calls) <= 1
    /\ srv.pc = "done" => Len(close_calls) = 1

----------------------------------------------------------------------------
\* Properties of the frame publisher (checked under SpecPublisher).

\* C20: a failed cycle never ends the Frame Publisher - after a failure and
\* with no stop signal it is still in its loop - and it is out of its loop
\* only when its stop signal is set.
C20_PublisherSurvivesFailures ==
    \A p \in Addr :
        /\ share[p].pc = "done" => share[p].stop
        /\ share[p].failed > 0 /\ ~share[p].stop => share[p].pc = "loop"

\* A cycle failed, a later cycle published a frame, and the publisher then
\* left its loop on the stop signal.
C20_Witness ==
    \E p \in Addr :
        /\ share[p].failed > 0
        /\ sent[p] > share[p].at
        /\ share[p].stop
        /\ share[p].pc = "done"

----------------------------------------------------------------------------
\* Termination after the stop signal (checked under SpecShutdown).

\* C16: once the stop signal of Server.stop is set, the accept loop, every
\* ingestor, the Command Dispatcher and the Frame Consumer eventually
\* terminate; once Client.stop has set the peer's, its command loop and its
\* publisher eventually terminate - blocked socket reads included.
C16_WorkersTerminate ==
    /\ stop_event ~> /\ srv.pc = "done"
                     /\ cc.pc = "done"
                     /\ fc.pc = "done"
                     /\ \A p \in Addr : handler[p].pc \in {"none", "dead"}
    /\ \A p \in Addr :
         cstop[p].disconnected ~> (pc[p] = "stopped" /\ share[p].pc = "done")

----------------------------------------------------------------------------
\* Containment of per-connection errors (checked under SpecDispatch).

\* C17: an error on one peer's connection - its ingestor's read failing or a
\* command send to it failing - never ends the Command Dispatcher or the
\* Frame Consumer, and leaves every other peer alone: a peer whose own
\* connection is up and whom the operator has not kicked keeps its registry
\* entry and its running ingestor.
C17_ErrorsStayWithTheirPeer ==
    ~stop_event =>
        /\ cc.pc # "done"
        /\ fc.pc # "done"
        /\ \A p \in hs_done :
             psock[p] = "open" /\ pc[p] = "Established" /\ p \notin ui_kicked
                 => /\ InSeq(p, clients_dict)
                    /\ ~handler[p].stop
                    /\ handler[p].pc # "dead"

----------------------------------------------------------------------------
\* Failures of the listener and of the handshake (checked under SpecListener).

\* C18: a failure of the listener - bind or listen raising, or accept
\* raising - is fatal: from then on the accept loop is on its way out (it
\* never waits in accept or runs a handshake again), and when Server.run
\* has ended Server.stop has run.
C18_ListenerFailureIsFatal ==
    accept_raised \/ srv.reason = "server crashed"
        => /\ srv.pc \in {"returned", "loop", "finally", "sweep", "done"}
           /\ srv.pc = "done" => stop_event /\ close_calls # <<>>


\* C19: a handshake that times out or fails on its inbound step aborts that
\* attempt only: no socket is returned, the peer is never registered, the
\* registry, the registered peers' ingestors and sockets, the pause flag and
\* both channels are as they were, and the accept loop goes round to accept
\* the next connection.
C19_FailedHandshakeAbortsOnlyItself ==
    [][/\ srv.pc = "recvkey" /\ srv'.pc = "returned"
          => /\ srv'.sock = None
             /\ srv.addr \in hs_failed'
             /\ ~InSeq(srv.addr, clients_dict')
             /\ \A q \in Addr \ {srv.addr} : ssock'[q] = ssock[q]
             /\ UNCHANGED <<stop_event, clients_dict, handler, rsa_keys, pause_event,
                            command_queue, frame_queue, cc, fc, kicked_addresses>>
       /\ srv.pc = "returned" /\ ~key_exchange_ok /\ srv'.pc # "returned"
          => /\ srv'.pc = "loop"
             /\ UNCHANGED <<stop_event, listener, clients_dict, handler>>
       /\ srv.pc = "loop" /\ ~stop_event /\ srv'.pc # "loop"
          => srv'.pc = "accept" /\ listener' = listener
       /\ \A p \in hs_failed \ hs_done : ~InSeq(p, clients_dict')]_vars

\* After the handshake of one peer has timed out, the accept loop has
\* accepted another and completed the handshake with it.
C19_Witness ==
    \E p \in hs_failed :
        /\ p \notin hs_done
        /\ ssock[p] = "closed"
        /\ srv.pc = "returned"
        /\ key_exchange_ok
        /\ srv.sock # p

----------------------------------------------------------------------------
\* Pause state of the peers (checked under SpecPause).

\* The Command Channel is empty, the dispatcher and the accept loop wait,
\* and every peer has read what was written to it.
Quiescent ==
    /\ command_queue = <<>>
    /\ cc.pc = "get"
    /\ srv.pc = "accept"
    /\ \A p \in Addr : s2c[p] = <<>>

----------------------------------------------------------------------------
\* Input suppression on the peer (checked under SpecInput).

C29_SuppressionIffBlockFlag ==
    \A p \in Addr :
        (pc[p] = "Established" /\ input[p].pc = "idle" /\ ~cstop[p].disconnected)
            => (input[p].listening <=> pblock[p])

----------------------------------------------------------------------------
\* The registry lock (checked under SpecRegistry).

\* C24: insert, lookup, remove and the shutdown sweep run under the one
\* registry lock.  The registry changes only in a step of the lock's holder:
\* while the dispatcher holds the lock nothing is inserted, only its current
\* target is removed or stopped, and every target it looked up is still
\* registered when its turn comes; the insert and the sweep happen only
\* when the lock is free for them to take.
C24_RegistryOpsUnderLock ==
    [][/\ clients_lock = "cc"
          => /\ \A a \in Elems(cc.targets) : InSeq(a, clients_dict)
             /\ Elems(clients_dict) \subseteq Elems(cc.snap)
             /\ clients_dict' \in {clients_dict, Without(clients_dict, Head(cc.targets))}
             /\ \A q \in Addr :
                    handler'[q] # handler[q] => q = Head(cc.targets)
       /\ clients_lock = "free" /\ clients_dict' # clients_dict
          => srv.pc = "insert" /\ clients_dict' = Insert(clients_dict, srv.addr)
       /\ close_calls' # close_calls => clients_lock = "free"]_vars

\* The accept loop is about to insert a new entry while the dispatcher
\* holds the registry lock with a target still to be served.
C24_Witness ==
    /\ clients_lock = "cc"
    /\ cc.targets # <<>>
    /\ srv.pc = "insert"
    /\ ~InSeq(srv.addr, clients_dict)

----------------------------------------------------------------------------
\* Framed reads (checked under SpecRecv).

\* C25: recv_all(sock, n) returns exactly n bytes, the first n the remote
\* side wrote, however they were split into packets; if the remote side
\* closes after fewer than n bytes it raises and never returns a short read.
C25_RecvAllExact ==
    /\ rx.state = "returned"
           => /\ Len(rx.data) = rx.n
              /\ Len(rx.sent) >= rx.n
              /\ rx.data = SubSeq(rx.sent, 1, rx.n)
    /\ rx.state = "raised" => (rx.closes /\ Len(rx.sent) < rx.n)
    /\ (rx.closes /\ Len(rx.sent) < rx.n /\ rx.wire = <<>>)
           => rx.state \in {"loop", "raised"}

\* Three bytes were asked for and returned from a longer stream that
\* arrived in more than one packet.
C25_Witness ==
    /\ rx.state = "returned"
    /\ rx.n = MaxLen
    /\ rx.packets > 1
    /\ Len(rx.sent) > MaxLen
    /\ rx.data = SubSeq(rx.sent, 1, MaxLen)

----------------------------------------------------------------------------
\* The symmetric key (checked under SpecPause).

\* C26: once a peer has completed the handshake its session key is the
\* operator's single symmetric key; the key of the ingestor in every
\* registry entry is that same key; and every command record the
\* dispatcher writes to a peer is encrypted with the key of that peer's
\* own registry entry.
C26_OneSessionKey ==
    /\ keys.aes_key = generate_aes_key
    /\ \A p \in Addr :
        /\ pc[p] = "Established" => keys.peer[p] = keys.aes_key
        /\ InSeq(p, clients_dict) => keys.entry[p] = keys.aes_key
        /\ keys.used[p] \subseteq {keys.entry[p]}
        /\ keys.used[p] \subseteq {keys.aes_key}

\* A peer that went through the handshake holds the key, is registered, and
\* the dispatcher has written it a command record.
C26_Witness ==
    /\ pc["A"] = "Established"
    /\ keys.wire["A"] = rsa_encrypt("A", generate_aes_key)
    /\ keys.peer["A"] = generate_aes_key
    /\ InSeq("A", clients_dict)
    /\ keys.used["A"] # {}

----------------------------------------------------------------------------
\* The publisher's cycle (checked under SpecCycle).

\* C27: a publisher cycle that finds the pause flag set at its start captures
\* nothing and writes no frame record; every frame record is written by a
\* cycle that found the pause flag clear at its start.
C27_PausedCycleWritesNothing ==
    [][\A p \in Addr :
        /\ (/\ share[p].pc = "loop"
            /\ ppause[p]
            /\ <<share'[p].pc, share'[p].seen>> # <<share[p].pc, share[p].seen>>)
               => /\ share'[p].pc = "loop"
                  /\ share'[p].seen
                  /\ wlog'[p] = wlog[p]
                  /\ c2s'[p] = c2s[p]
        /\ share'[p].pc \in {"lock", "read", "capture"} => ~share'[p].seen
        /\ wlog'[p] # wlog[p] => (share[p].pc = "capture" /\ ~share[p].seen)]_vars

\* A cycle found the pause flag set after an earlier cycle had published.
C27_Witness ==
    /\ share["A"].pc = "loop"
    /\ share["A"].seen
    /\ ppause["A"]
    /\ sent["A"] > 0

\* C28: once the command loop has handled a well-formed resize to (w, h),
\* every cycle that reads the resolution afterwards captures at (w, h) until
\* the next resize; the resolution is read and written only with the
\* publisher's lock held, and a cycle never captures with the width of one
\* resize and the height of another.
C28_ResolutionUnderLock ==
    [][\A p \in Addr :
        /\ (input[p].pc = "update" /\ input'[p].pc = "idle")
               => (input[p].cmd.op = "resize" /\ pimg'[p] = input[p].cmd.sz)
        /\ pimg'[p] # pimg[p]
               => (input[p].pc = "update" /\ share[p].lock = "update")
        /\ (share[p].pc = "read" /\ share'[p].pc = "capture")
               => /\ share[p].lock = "run"
                  /\ share'[p].width = pimg[p]
                  /\ share'[p].height = pimg[p]
                  /\ pimg'[p] = pimg[p]
        /\ <<share'[p].width, share'[p].height>> # <<share[p].width, share[p].height>>
               => (share[p].pc = "read" /\ share[p].lock = "run")
        /\ wlog'[p] # wlog[p]
               => /\ share[p].width = share[p].height
                  /\ wlog'[p] = Append(wlog[p], FrameRecord(sent[p] + 1, share[p].width))]_vars

\* A cycle that read the resolution after a resize captures at the new size.
C28_Witness ==
    /\ share["A"].pc = "capture"
    /\ pimg["A"] = organize_screens(2, FullSize)
    /\ share["A"].width = pimg["A"]
    /\ share["A"].height = pimg["A"]
    /\ input["A"].pc = "idle"

----------------------------------------------------------------------------
\* Zero-length frame records (checked under SpecEmpty).

\* C30: an ingestor that reads a frame record whose length field is zero
\* fails the connection: it puts nothing on the Frame Channel for that
\* record, terminates and closes its socket; the record is never enqueued
\* as an empty frame.
C30_EmptyFrameFailsConnection ==
    [][\A p \in Addr :
        (/\ handler[p].pc = "read"
         /\ ssock[p] = "open"
         /\ c2s[p] # <<>>
         /\ Head(c2s[p]) = EmptyFrameRecord
         /\ handler'[p].pc # "read")
            => /\ frame_queue' = frame_queue
               /\ handler'[p].pc = "dead"
               /\ ssock'[p] = "closed"
               /\ p \in terminal']_vars

\* An ingestor has ended on a zero-length record that followed a frame it
\* had put on the Frame Channel.
C30_Witness ==
    /\ handler["A"].pc = "dead"
    /\ ssock["A"] = "closed"
    /\ psock["A"] = "open"
    /\ c2s["A"] # <<>>
    /\ Head(c2s["A"]) = EmptyFrameRecord
    /\ \E i \in 1..Len(frame_queue) : frame_queue[i].a = "A"

----------------------------------------------------------------------------
\* Ingestor errors (checked under SpecErrors).

\* C31: an ingestor that hits an error (its socket closed, the stream ended,
\* a zero length, a payload that fails decryption or decompression)
\* terminates and closes its socket, and schedules the cleanup of its own
\* identity exactly when the shutdown flag is not set at that moment.
C31_CleanupUnlessShutdown ==
    [][\A p \in Addr :
        (handler[p].pc = "read" /\ handler'[p].pc # "read")
            => /\ handler'[p].pc \in {"check", "dead"}
               /\ handler'[p].pc = "check" => afterQ' = afterQ
               /\ handler'[p].pc = "dead"
                     => /\ ssock'[p] = "closed"
                        /\ shutdown_event => afterQ' = afterQ
                        /\ ~shutdown_event => afterQ' = Append(afterQ, CleanupSelf(p))]_vars

\* An ingestor ended on a corrupt record during shutdown, and nothing was
\* scheduled for it.
C31_Witness ==
    /\ shutdown_event
    /\ handler["A"].pc = "dead"
    /\ ssock["A"] = "closed"
    /\ c2s["A"] # <<>>
    /\ Head(c2s["A"]) = CorruptFrameRecord
    /\ \A i \in 1..Len(afterQ) : afterQ[i].due # "A"
    /\ gui.pc = "idle"

----------------------------------------------------------------------------
\* Pacing of the ingestor (checked under SpecPacing).

\* C32: pacing drops nothing: every frame record the ingestor reads is put
\* on the Frame Channel exactly once, at its tail, tagged with the
\* ingestor's own identity, so in the order the records arrived; and
\* nothing else is put there for that peer.
C32_PacingDropsNothing ==
    [][\A p \in Addr :
        /\ (handler[p].pc = "read" /\ c2s[p] # <<>> /\ c2s'[p] = Tail(c2s[p]))
              => LET r == Head(c2s[p]) IN
                   frame_queue' = Append(frame_queue, Frame(p, r.id, r.sz, now))
        /\ (/\ Len(frame_queue') > Len(frame_queue)
            /\ frame_queue'[Len(frame_queue')].a = p)
              => /\ handler[p].pc = "read"
                 /\ c2s[p] # <<>>
                 /\ c2s'[p] = Tail(c2s[p])]_vars

\* Two frames of a peer are on the Frame Channel in the order they were
\* written, the second read less than min_frame_interval after the first.
C32_Witness ==
    /\ Len(frame_queue) = 2
    /\ frame_queue[1].a = "A" /\ frame_queue[1].n = 1
    /\ frame_queue[2].a = "A" /\ frame_queue[2].n = 2
    /\ frame_queue[2].ts - frame_queue[1].ts < min_frame_interval
    /\ handler["A"].pc = "check"
    /\ handler["A"].recent

----------------------------------------------------------------------------
\* Resize and targeted entries (checked under SpecEntries).

\* The send loop handles its next target and no other peer: the record is
\* written to that peer or the write fails, and nothing is written to
\* anyone else.
OneTargetServed ==
    LET a == Head(cc.targets)
        r == CmdRecord(cc.cmd.op, cc.cmd.sz, cc.cmd.id)
    IN  /\ cc'.targets = Tail(cc.targets)
        /\ \/ wlog'[a] = Append(wlog[a], r)
           \/ wlog'[a] = wlog[a] /\ a \in cc'.failed
        /\ \A p \in Addr \ {a} : wlog'[p] = wlog[p]

C34_TargetedEntries ==
    [][/\ (cc.pc = "get" /\ cc'.pc = "lock")
            => /\ command_queue # <<>>
               /\ cc'.cmd = Head(command_queue)
               /\ command_queue' = Tail(command_queue)
       /\ command_queue' # command_queue
            => (cc.pc = "get" /\ cc'.pc = "lock")
       /\ (cc.cmd.op \notin Broadcast \cup {"resize"} /\ cc.pc = "lock" /\ cc'.pc # "lock")
            => /\ pause_event' = pause_event
               /\ wlog' = wlog
               /\ clients_dict' = clients_dict
               /\ cc'.targets = IF InSeq(cc.cmd.target, clients_dict)
                                THEN <<cc.cmd.target>> ELSE <<>>
               /\ cc'.targets = <<>> => cc'.pc = "get"
       /\ (cc.cmd.op \notin Broadcast \cup {"resize"} /\ cc.pc = "send" /\ cc' # cc)
            => /\ Head(cc.targets) = cc.cmd.target
               /\ OneTargetServed
               /\ cc'.pc = "get"]_vars

\* A click for an unregistered peer was taken and nothing was written.
C34_Witness ==
    /\ cc.pc = "get"
    /\ cc.cmd.op = "button"
    /\ cc.cmd.target = "C"
    /\ command_queue = <<>>
    /\ clients_dict = <<"A", "B">>
    /\ \A p \in Addr : wlog[p] \in {<<>>, Handshake}

----------------------------------------------------------------------------
\* The initial resize (checked under SpecAdmission).

\* C35: the resize the accept loop puts for a peer whose handshake went
\* through is eventually written to that peer, unless the peer goes away.
C35_InitialResizeDelivered ==
    \A p \in Addr :
        (srv.pc = "pause" /\ srv.addr = p)
            ~> \/ psock[p] # "open"
               \/ \E i \in 1..Len(wlog[p]) : wlog[p][i].op = "resize"

----------------------------------------------------------------------------
\* Thumbnails after an ingestor's cleanup (checked under SpecFrames, where
\* nobody is kicked and no peer connects again).

\* C36: once the cleanup scheduled by a peer's failed ingestor has run, the
\* renderer holds no thumbnail of that peer.
C36_NoThumbnailAfterCleanup ==
    \A p \in Addr :
        (/\ handler[p].pc = "dead"
         /\ p \notin kicked_addresses
         /\ gui.pc = "idle" /\ gui.f = "cleanup" /\ gui.target = p)
            => p \notin buttons

----------------------------------------------------------------------------
\* Writers of one connection (checked under SpecFields).

\* C37: the accept loop and the dispatcher are never both part-way through
\* a record to the same peer, and on every connection each IV and each
\* ciphertext directly follows the preceding field of its own record, so
\* the fields of two command records are never interleaved.
C37_OneWriterPerConnection ==
    /\ ~(/\ tx.srv > 0 /\ tx.cc > 0
         /\ cc.pc = "send" /\ Head(cc.targets) = srv.addr)
    /\ \A p \in Addr : \A i \in 1..Len(tx.wire[p]) :
          LET x == tx.wire[p][i] IN
            x.f # "len" =>
              /\ i > 1
              /\ tx.wire[p][i - 1].by = x.by
              /\ tx.wire[p][i - 1].id = x.id
              /\ tx.wire[p][i - 1].f = (IF x.f = "iv" THEN "len" ELSE "iv")

\* The accept loop wrote its direct pause to A field by field and the
\* dispatcher later wrote a record to A field by field.
C37_Witness ==
    \E i, j \in 1..Len(tx.wire["A"]) :
        /\ i + 2 < j
        /\ tx.wire["A"][i].by = "srv" /\ tx.wire["A"][i].f = "len"
        /\ tx.wire["A"][j].by = "cc" /\ tx.wire["A"][j].f = "ct"
        /\ tx.srv = 0 /\ tx.cc = 0

----------------------------------------------------------------------------
\* Frames after the stop signal (checked under SpecStopped).

\* C38: an ingestor whose stop signal has been set puts at most one more
\* frame on the Frame Channel.
C38_OneFrameAfterStop == \A p \in Addr : handler[p].late <= 1

\* An ingestor was stopped during a read, put that frame and left its loop
\* while the peer's next frame was waiting on the connection.
C38_Witness ==
    \E p \in Addr :
        /\ handler[p].late = 1
        /\ handler[p].pc = "dead"
        /\ c2s[p] # <<>>

----------------------------------------------------------------------------
\* Locks (checked under SpecLocks).

\* The lock a worker is about to acquire, if any.
Wants(w) ==
    IF lk.prog[w] # <<>> /\ Head(lk.prog[w]).do = "acq" THEN Head(lk.prog[w]).l ELSE None

\* C39: a worker that requests a lock holds no lock, and the lock it
\* requests is free or held by a worker that is itself requesting none, so
\* no set of workers waits for one another.
C39_NoLockDeadlock ==
    \A w \in Workers :
        Wants(w) # None =>
            /\ \A l \in Locks : lk.owner[l] # w
            /\ lk.owner[Wants(w)] # "free" => Wants(lk.owner[Wants(w)]) = None

\* The caller of Server.stop waits for the registry lock, which the
\* dispatcher holds, while the accept loop is in its key exchange.
C39_Witness ==
    /\ Wants("stopper") = "clients_lock"
    /\ lk.owner["clients_lock"] = "dispatcher"
    /\ lk.owner["rsa_keys_lock"] = "accept"
    /\ Wants("app") = "stop_lock" /\ lk.owner["stop_lock"] = "command_loop"

----------------------------------------------------------------------------
\* Malformed and unknown commands (checked under SpecTexts).

\* C40: when the command loop handles a malformed resize or a text outside
\* the known set, the capture resolution, the pause flag, the block flag
\* and the suppression state stay as they were and the loop goes on.
C40_BadCommandIgnored ==
    [][\A p \in Addr :
          (/\ pc[p] = "Established"
           /\ s2c[p] # <<>>
           /\ s2c'[p] = Tail(s2c[p])
           /\ Head(s2c[p]).op \in MalformedResizes \cup UnknownCommands)
              => /\ pimg'[p] = pimg[p]
                 /\ ppause'[p] = ppause[p]
                 /\ pblock'[p] = pblock[p]
                 /\ input'[p].listening = input[p].listening
                 /\ pc'[p] = "Established"
                 /\ psock'[p] = psock[p]
                 /\ cstop'[p] = cstop[p]]_vars

\* A blocked peer has handled a malformed resize as its last command and
\* is still in its command loop.
C40_Witness ==
    /\ pc["A"] = "Established"
    /\ pblock["A"]
    /\ s2c["A"] = <<>>
    /\ wlog["A"] # <<>> /\ wlog["A"][Len(wlog["A"])].op \in MalformedResizes

====
